---- MODULE Spec2Model ----
(***************************************************************************)
(* Model of the GLONASS telematics ingestion client                        *)
(* (src/glonass_api_client.py with the schemas of src/glonass_schemas.py): *)
(* the request executor make_api_request, the upsert routine insert_data   *)
(* on both SQL dialects, and the __main__ orchestrator.                    *)
(*                                                                         *)
(* What the model takes as given:                                          *)
(*  - the import of lines 18-55 succeeds, i.e. glonass_schemas declares    *)
(*    every class the client imports and every attribute it reads;         *)
(*  - create_tables fails on SQLite (sqlite3's execute rejects the         *)
(*    TextClause of line 172), so that only a PostgreSQL run goes past     *)
(*    line 832; on PostgreSQL the tables exist once it has returned;       *)
(*  - insert_data on its own is given a connection of either dialect to a  *)
(*    database that has the tables of create_tables;                       *)
(*  - the sleeps between calls take time and change nothing else.          *)
(***************************************************************************)
EXTENDS Integers, Sequences, FiniteSets, TLC

(***************************************************************************)
(* Program constants (src/glonass_api_client.py:64-69).                    *)
(***************************************************************************)
REQUEST_DELAY_SECONDS == 5
DETAIL_REQUEST_DELAY_SECONDS == 7
MAX_RETRIES == 5
RETRY_DELAY_BASE_SECONDS == 10

(***************************************************************************)
(* Bounds of the model.                                                    *)
(***************************************************************************)
\* longest Retry-After header value, in characters
MaxHeaderLen == 3
\* make_api_request invocations explored by SpecExec
MaxCalls == 2

(***************************************************************************)
(* Python values.  Every value is a record tagged by t.                    *)
(***************************************************************************)
None == [t |-> "None"]
NULL == "NULL"

RECURSIVE Pow2(_)
Pow2(n) == IF n = 0 THEN 1 ELSE 2 * Pow2(n - 1)

Max(a, b) == IF a >= b THEN a ELSE b

Restrict(f, S) == [x \in S |-> f[x]]

(***************************************************************************)
(* The Retry-After header as requests delivers it: absent (None) or a      *)
(* latin-1 decoded string, here a sequence over a four-character alphabet: *)
(* "9" an ASCII decimal digit, "sup2" the superscript two U+00B2 (a        *)
(* character of latin-1 for which str.isdigit() is True and which int()    *)
(* rejects), "x" any other character.                                      *)
(***************************************************************************)
HeaderChars == {"9", "sup2", "x"}

HeaderStrings == UNION {[1..n -> HeaderChars] : n \in 0..MaxHeaderLen}

NoHeader == [t |-> "None"]

RetryAfterHeaders == {NoHeader} \cup {[t |-> "str", s |-> s] : s \in HeaderStrings}

\* str.isdigit(): non-empty and every character has the Unicode digit property
isdigit(s) == Len(s) > 0 /\ \A i \in 1..Len(s) : s[i] \in {"9", "sup2"}

\* int(s) succeeds on a string of decimal digits; otherwise ValueError
IntParses(s) == Len(s) > 0 /\ \A i \in 1..Len(s) : s[i] = "9"

RECURSIVE IntOf(_)
IntOf(s) == IF Len(s) = 0 THEN 0 ELSE 10 * IntOf(SubSeq(s, 1, Len(s) - 1)) + 9

\* truthiness of e.response.headers.get("Retry-After")
HeaderTruthy(h) == h.t = "str" /\ Len(h.s) > 0

\* line 546: retry_after_header and retry_after_header.isdigit()
HintApplies(h) == HeaderTruthy(h) /\ isdigit(h.s)

\* line 547 raises ValueError when int(retry_after_header) fails
WaitRaises(h) == HintApplies(h) /\ ~IntParses(h.s)

ExpTerm(current_retries) == RETRY_DELAY_BASE_SECONDS * Pow2(current_retries)

WaitTimeIgnoringHint(current_retries, h) == ExpTerm(current_retries)

\* lines 545-547: the wait before the next attempt (when line 547 does not raise)
WaitTime(current_retries, h) ==
    IF HintApplies(h)
    THEN Max(ExpTerm(current_retries), IntOf(h.s))
    ELSE ExpTerm(current_retries)

ShouldRetryAnyHttpError(status, current_retries) == current_retries < MAX_RETRIES

\* line 543: e.response.status_code == 429 and current_retries < MAX_RETRIES
ShouldRetry(status, current_retries) ==
    status = 429 /\ current_retries < MAX_RETRIES

(***************************************************************************)
(* The relational store: the tables of create_tables (lines 172-324),      *)
(* each with its keys and a representative selection of its data columns.  *)
(* A cell is a string, NULL for SQL NULL.                                  *)
(***************************************************************************)
ReferenceTables == {"device_types", "sensor_types"}

ChildTables ==
    {"vehicle_custom_fields_detail", "vehicle_sensors_detail",
     "vehicle_drivers_assigned", "vehicle_status_history_items",
     "vehicle_cmsv6_params", "vehicle_command_templates",
     "vehicle_inspection_tasks"}

ReportTables ==
    {"last_data", "mileage_motohours", "fuel_consumption", "fuel_events",
     "move_events", "stop_events"}

TableNames ==
    ReferenceTables \cup {"drivers", "vehicle_details"} \cup ChildTables
        \cup ReportTables

Columns(t) ==
    CASE t = "device_types" -> {"deviceTypeId", "deviceTypeName"}
      [] t = "sensor_types" -> {"id", "name", "description"}
      [] t = "drivers" -> {"id", "name", "parentId", "exclusive", "deleted"}
      [] t = "vehicle_details" ->
            {"vehicleId", "name", "deviceTypeId", "parentId", "locationByCellId"}
      [] t = "vehicle_custom_fields_detail" ->
            {"vehicleId", "custom_field_id", "name", "forTooltip"}
      [] t = "vehicle_sensors_detail" ->
            {"vehicleId", "sensor_id", "name", "type_str", "sensor_type_id",
             "isInverted"}
      [] t = "vehicle_drivers_assigned" ->
            {"vehicleId", "driver_id", "name", "isDefault"}
      [] t = "vehicle_status_history_items" ->
            {"vehicleId", "status", "date", "description", "additionalInfo"}
      [] t = "vehicle_cmsv6_params" -> {"vehicleId", "cms_id", "enabled"}
      [] t = "vehicle_command_templates" ->
            {"vehicleId", "command_template_id", "name"}
      [] t = "vehicle_inspection_tasks" ->
            {"vehicleId", "task_id", "enabled", "name"}
      [] t = "last_data" -> {"vehicleId", "vehicleNumber", "geozones"}
      [] t = "mileage_motohours" ->
            {"vehicleId", "period_start", "period_end", "mileage"}
      [] t = "fuel_consumption" ->
            {"vehicleId", "period_start", "period_end", "fuelConsumption"}
      [] t = "fuel_events" ->
            {"vehicleId", "event_type", "event_startDate", "event_endDate",
             "valueFuel"}
      [] t = "move_events" ->
            {"vehicleId", "eventId", "event_start", "event_end", "mileage"}
      [] t = "stop_events" ->
            {"vehicleId", "eventId", "event_start", "event_end", "address"}

\* the declared PRIMARY KEY column; "id" is the AUTOINCREMENT/BIGSERIAL surrogate
PrimaryKey(t) ==
    CASE t = "device_types" -> "deviceTypeId"
      [] t \in {"sensor_types", "drivers"} -> "id"
      [] t \in {"vehicle_details", "vehicle_cmsv6_params", "last_data"} -> "vehicleId"
      [] OTHER -> "id"

\* get_pk_autoincrement_sql(): the table has a surrogate id the code never supplies
Autoincrement(t) ==
    t \notin {"device_types", "sensor_types", "drivers", "vehicle_details",
              "vehicle_cmsv6_params", "last_data"}

\* INTEGER PRIMARY KEY of SQLite: an alias of the rowid, filled in when NULL
IntegerPrimaryKey(t) == ~Autoincrement(t) /\ t # "drivers"

\* the UNIQUE(...) constraints of the DDL
UniqueConstraints(t) ==
    CASE t = "sensor_types" -> {{"name"}}
      [] t = "vehicle_custom_fields_detail" -> {{"vehicleId", "custom_field_id"}}
      [] t = "vehicle_sensors_detail" -> {{"vehicleId", "sensor_id"}}
      [] t = "vehicle_drivers_assigned" -> {{"vehicleId", "driver_id"}}
      [] t = "vehicle_status_history_items" ->
            {{"vehicleId", "date", "status", "description", "additionalInfo"}}
      [] t = "vehicle_command_templates" -> {{"vehicleId", "command_template_id"}}
      [] t = "vehicle_inspection_tasks" -> {{"vehicleId", "task_id"}}
      [] t \in {"mileage_motohours", "fuel_consumption"} ->
            {{"vehicleId", "period_start", "period_end"}}
      [] t = "fuel_events" -> {{"vehicleId", "event_startDate", "event_type"}}
      [] t \in {"move_events", "stop_events"} ->
            {{"vehicleId", "event_start", "eventId"}}
      [] OTHER -> {}

\* every uniqueness constraint over the modelled columns
KeySets(t) ==
    UniqueConstraints(t) \cup (IF Autoincrement(t) THEN {} ELSE {{PrimaryKey(t)}})

\* the explicit NOT NULL columns of the DDL (retrieved_at is always supplied)
NotNullColumns(t) ==
    CASE t \in ChildTables \ {"vehicle_cmsv6_params"} ->
            {"vehicleId"} \cup
            (IF t = "vehicle_command_templates" THEN {"command_template_id"}
             ELSE IF t = "vehicle_inspection_tasks" THEN {"task_id"} ELSE {})
      [] OTHER -> {}

\* FOREIGN KEY (col) REFERENCES ref(refcol) ON DELETE action
ForeignKeys(t) ==
    (IF t \in ChildTables \cup ReportTables
     THEN {[col |-> "vehicleId", ref |-> "vehicle_details", refcol |-> "vehicleId",
            ondelete |-> "CASCADE"]}
     ELSE {})
    \cup
    (IF t = "vehicle_details"
     THEN {[col |-> "deviceTypeId", ref |-> "device_types",
            refcol |-> "deviceTypeId", ondelete |-> "SET NULL"]}
     ELSE {})
    \cup
    (IF t = "vehicle_sensors_detail"
     THEN {[col |-> "sensor_type_id", ref |-> "sensor_types", refcol |-> "id",
            ondelete |-> "SET NULL"]}
     ELSE {})

\* insert_data lines 347-371: the ON CONFLICT columns per table
unique_cols_map(t) ==
    CASE t = "device_types" -> {"deviceTypeId"}
      [] t \in {"sensor_types", "drivers"} -> {"id"}
      [] t \in {"vehicle_details", "vehicle_cmsv6_params", "last_data"} -> {"vehicleId"}
      [] t = "vehicle_custom_fields_detail" -> {"vehicleId", "custom_field_id"}
      [] t = "vehicle_sensors_detail" -> {"vehicleId", "sensor_id"}
      [] t = "vehicle_drivers_assigned" -> {"vehicleId", "driver_id"}
      [] t = "vehicle_status_history_items" ->
            {"vehicleId", "date", "status", "description", "additionalInfo"}
      [] t = "vehicle_command_templates" -> {"vehicleId", "command_template_id"}
      [] t = "vehicle_inspection_tasks" -> {"vehicleId", "task_id"}
      [] t \in {"mileage_motohours", "fuel_consumption"} ->
            {"vehicleId", "period_start", "period_end"}
      [] t = "fuel_events" -> {"vehicleId", "event_startDate", "event_type"}
      [] t \in {"move_events", "stop_events"} ->
            {"vehicleId", "event_start", "eventId"}
      [] OTHER -> {}

(***************************************************************************)
(* insert_data (lines 334-449).  A stored row is                           *)
(*   [tbl, rid, retrieved_at, c]                                           *)
(* with rid the rowid / surrogate id and c the cells of Columns(tbl).  A   *)
(* record handed to insert_data is a function from some of the columns to  *)
(* cells (model_dump(exclude_none=True) leaves None fields out).           *)
(***************************************************************************)
\* the rowid SQLite assigns to a NULL INTEGER PRIMARY KEY: a value no API id equals
AUTO == "auto"

Get(data, col) == IF col \in DOMAIN data THEN data[col] ELSE NULL

\* the VALUES row: supplied columns, NULL for every column left out
ProposedCells(t, data) == [col \in Columns(t) |-> Get(data, col)]

\* two rows collide on a uniqueness constraint: equal and non-NULL in every column
Collide(c1, c2, cols) ==
    \A col \in cols : c1[col] = c2[col] /\ c1[col] # NULL /\ c1[col] # AUTO

RowsOf(st, t) == {r \in st : r.tbl = t}

ForeignKeysNotEnforced(st, t, c) == FALSE

\* a non-NULL foreign key of the cells c of table t has no parent row in st
ForeignKeyViolated(st, t, c) ==
    \E fk \in ForeignKeys(t) :
        /\ c[fk.col] # NULL
        /\ ~\E p \in RowsOf(st, fk.ref) : p.c[fk.refcol] = c[fk.col]

DeleteWithoutActions(st, dead) == st \ dead

\* the ON DELETE actions of the rows that reference a deleted row
AfterDelete(st, dead) ==
    LET refs(r) == {fk \in ForeignKeys(r.tbl) :
                        \E d \in dead : /\ d.tbl = fk.ref
                                        /\ r.c[fk.col] # NULL
                                        /\ d.c[fk.refcol] = r.c[fk.col]}
        kept == {r \in st \ dead : \A fk \in refs(r) : fk.ondelete # "CASCADE"}
    IN  {[r EXCEPT !.c = [col \in DOMAIN r.c |->
                            IF \E fk \in refs(r) : fk.col = col
                            THEN NULL ELSE r.c[col]]] : r \in kept}

\* SQLite, line 406: INSERT OR REPLACE INTO t (columns) VALUES (...)
SqliteInsertOrReplace(st, t, data, rid, now) ==
    LET c0 == ProposedCells(t, data)
        c == IF IntegerPrimaryKey(t) /\ c0[PrimaryKey(t)] = NULL
             THEN [c0 EXCEPT ![PrimaryKey(t)] = AUTO] ELSE c0
        dead == {r \in RowsOf(st, t) : \E k \in KeySets(t) : Collide(r.c, c, k)}
        rest == AfterDelete(st, dead)
        row == [tbl |-> t, rid |-> rid, retrieved_at |-> now, c |-> c]
    IN  IF \/ \E col \in NotNullColumns(t) : c[col] = NULL
           \/ ForeignKeyViolated(rest, t, c)
        THEN [ok |-> FALSE, store |-> st]
        ELSE [ok |-> TRUE, store |-> rest \cup {row}]

UpdateSetWithoutStamp(t, data_copy_keys) ==
    (data_copy_keys \ unique_cols_map(t)) \ {"retrieved_at"}

\* lines 379-383: the columns of the DO UPDATE SET clause
update_set_parts(t, data_copy_keys) == data_copy_keys \ unique_cols_map(t)

\* PostgreSQL, lines 388-391: INSERT ... ON CONFLICT (unique_cols) DO UPDATE SET ...
\* (DO NOTHING when update_set_parts is empty)
PostgresUpsert(st, t, data, rid, now) ==
    LET c == ProposedCells(t, data)
        arbiter == unique_cols_map(t)
        hit == {r \in RowsOf(st, t) : Collide(r.c, c, arbiter)}
        sets == update_set_parts(t, DOMAIN data \cup {"retrieved_at"})
        notnull == NotNullColumns(t) \cup
                   (IF Autoincrement(t) THEN {} ELSE {PrimaryKey(t)})
    IN  IF \E col \in notnull : c[col] = NULL
        THEN [ok |-> FALSE, store |-> st]
        ELSE IF hit = {}
        THEN IF \/ \E r \in RowsOf(st, t) : \E k \in KeySets(t) : Collide(r.c, c, k)
                \/ ForeignKeyViolated(st, t, c)
             THEN [ok |-> FALSE, store |-> st]
             ELSE [ok |-> TRUE,
                   store |-> st \cup {[tbl |-> t, rid |-> rid,
                                       retrieved_at |-> now, c |-> c]}]
        ELSE IF sets = {}
        THEN [ok |-> TRUE, store |-> st]
        ELSE LET old == CHOOSE r \in hit : TRUE
                 nc == [col \in Columns(t) |->
                            IF col \in sets THEN c[col] ELSE old.c[col]]
                 new == [old EXCEPT !.c = nc,
                                    !.retrieved_at =
                                        IF "retrieved_at" \in sets THEN now
                                        ELSE old.retrieved_at]
             IN  IF \/ \E r \in RowsOf(st, t) \ {old} :
                            \E k \in KeySets(t) : Collide(r.c, nc, k)
                    \/ ForeignKeyViolated(st, t, nc)
                 THEN [ok |-> FALSE, store |-> st]
                 ELSE [ok |-> TRUE, store |-> (st \ {old}) \cup {new}]

\* what a call has done with its transaction when it returns.  Lines 410-419: a
\* statement that succeeds is committed.  Lines 441-449: the handler rolls back
\* `if not is_sqlite` only, so that on SQLite the transaction sqlite3 opened
\* before the failed INSERT stays open (conn.in_transaction is True)
TransactionAfter(db_type, ok) ==
    IF ok THEN "committed"
    ELSE IF db_type = "sqlite" THEN "open" ELSE "rolled_back"

NoKeylessWarning(db_type, t) == FALSE

\* lines 397-402: on PostgreSQL a table without an entry in unique_cols_map gets
\* a plain INSERT and logger.warning(... "Используется простой INSERT" ...); the
\* SQLite branch (lines 404-408) logs nothing
KeylessWarning(db_type, t) == db_type # "sqlite" /\ unique_cols_map(t) = {}

\* insert_data(conn, table_name, data): line 335 returns at once on an empty
\* record; a failing statement is caught (lines 441-449) and leaves the store as
\* it was.  The statement for a table that create_tables did not create fails
\* (on SQLite when it is compiled, before sqlite3 opens a transaction)
insert_data(db_type, st, t, data, rid, now) ==
    IF DOMAIN data = {}
    THEN [ok |-> FALSE, store |-> st, tx |-> "untouched", warned |-> FALSE]
    ELSE LET r == IF t \notin TableNames THEN [ok |-> FALSE, store |-> st]
                  ELSE IF db_type = "sqlite"
                  THEN SqliteInsertOrReplace(st, t, data, rid, now)
                  ELSE PostgresUpsert(st, t, data, rid, now)
         IN  [ok |-> r.ok, store |-> r.store,
              tx |-> IF t \notin TableNames /\ db_type = "sqlite" THEN "untouched"
                     ELSE TransactionAfter(db_type, r.ok),
              warned |-> KeylessWarning(db_type, t)]

(***************************************************************************)
(* State.                                                                  *)
(***************************************************************************)
VARIABLES
    pc,                           \* position of __main__ (or of the harness)
    run,                          \* 1 for the first run of the pipeline, 2 for the re-run
    call,                         \* the make_api_request invocation in progress
    ncalls,                       \* invocations started by the executor harness
    DB_TYPE,                      \* "sqlite" or "postgres"
    store,                        \* the rows of the database
    nextRid,                      \* next rowid / sequence value
    clock,                        \* datetime.now() as a logical clock
    writes,                       \* the insert_data calls made so far, newest first (at most two kept)
    auth_token,
    SENSOR_TYPE_NAME_TO_ID_MAP,
    active_vehicle_ids,
    all_parent_ids_from_vehicles,
    todo,                         \* the part of the current loop still to run
    ret,                          \* what each call of the first run returned
    snapshot,                     \* the store's content at the end of the first run
    log                           \* what the run has done, for the properties

execVars == <<call, ncalls>>
storeVars == <<DB_TYPE, store, nextRid, clock, writes>>
mainVars == <<pc, run, auth_token, SENSOR_TYPE_NAME_TO_ID_MAP, active_vehicle_ids,
              all_parent_ids_from_vehicles, todo, ret, snapshot, log>>
vars == <<pc, run, call, ncalls, DB_TYPE, store, nextRid, clock, writes, auth_token,
          SENSOR_TYPE_NAME_TO_ID_MAP, active_vehicle_ids,
          all_parent_ids_from_vehicles, todo, ret, snapshot, log>>

(***************************************************************************)
(* make_api_request (lines 462-571).  One step is one HTTP attempt: the    *)
(* request, the classification of the response, and either the return (or  *)
(* the escaping exception) or the back-off sleep followed by the recursive *)
(* call of line 552, whose return value the outer call returns unchanged.  *)
(***************************************************************************)
\* the arguments method, token, json_data and params of make_api_request; every
\* call site leaves params at None
Request(method, token, json_data) ==
    [method |-> method, token |-> token, json_data |-> json_data, params |-> NULL]

IdleCall ==
    [pc |-> "idle", endpoint |-> [path |-> "", arg |-> ""], expect |-> "none",
     request |-> Request("", NULL, None), current_retries |-> 0,
     nreq |-> 0, wait_time |-> 0, prev_wait |-> 0, hinted |-> FALSE,
     retry_after |-> NoHeader, last |-> "none", all429 |-> TRUE,
     body |-> [t |-> "none"], result |-> None]

\* a fresh invocation: current_retries defaults to 0 (line 470)
NewCall(endpoint, expect, request) ==
    [IdleCall EXCEPT !.pc = "sending", !.endpoint = endpoint, !.expect = expect,
                     !.request = request]

\* the three ways the callers set response_model / response_list_model
Expectations == {"none", "single", "list"}

ValidateListIgnoringShape(expect, body) ==
    IF body.t = "null" THEN None
    ELSE IF expect = "none" \/ expect = "list" THEN [t |-> "raw", body |-> body]
    ELSE IF body.t = "object" /\ body.ok THEN [t |-> "model", data |-> body.data]
    ELSE None

ValidatePerElement(expect, body) ==
    IF body.t = "null" THEN None
    ELSE IF expect = "none" THEN [t |-> "raw", body |-> body]
    ELSE IF expect = "list"
    THEN IF body.t # "list" THEN None
         ELSE [t |-> "list",
               items |-> LET F[i \in 0..Len(body.items)] ==
                                IF i = 0 THEN <<>>
                                ELSE IF body.items[i].ok
                                THEN Append(F[i - 1], body.items[i].data)
                                ELSE F[i - 1]
                         IN  F[Len(body.items)]]
    ELSE IF body.t = "object" /\ body.ok THEN [t |-> "model", data |-> body.data]
    ELSE None

\* lines 492-538: what a 2xx response makes make_api_request return.
\* body.t is "text" (not JSON: response.text is kept), "null", "object" (any JSON
\* value that is no list) or "list"; ok says that pydantic's model_validate
\* accepts the object for the schema asked for.  A model_validate failure of any
\* element raises ValidationError out of the list comprehension of line 515.
Validate(expect, body) ==
    IF body.t = "null" THEN None
    ELSE IF expect = "none" THEN [t |-> "raw", body |-> body]
    ELSE IF expect = "list"
    THEN IF body.t # "list" THEN None
         ELSE IF \A i \in 1..Len(body.items) : body.items[i].ok
         THEN [t |-> "list",
               items |-> [i \in 1..Len(body.items) |-> body.items[i].data]]
         ELSE None
    ELSE IF body.t = "object" /\ body.ok THEN [t |-> "model", data |-> body.data]
    ELSE None

(***************************************************************************)
(* Upstream responses.                                                     *)
(***************************************************************************)
\* longest JSON array the generic endpoint answers with
MaxItems == 2

Text == [t |-> "text"]
JsonNull == [t |-> "null"]
Obj(ok, data) == [t |-> "object", ok |-> ok, data |-> data]
List(items) == [t |-> "list", items |-> items]
Elem(ok, data) == [ok |-> ok, data |-> data]

\* the endpoint the executor harness calls: any body, each element of which the
\* requested schema accepts (ok) or rejects
AnyEndpoint == [path |-> "/any", arg |-> ""]

Junk == [junk |-> "junk"]

AnyElements ==
    {Elem(TRUE, [d |-> "d1"]), Elem(TRUE, [d |-> "d2"]), Elem(FALSE, Junk)}

AnyBodies ==
    {Text, JsonNull}
        \cup {Obj(e.ok, e.data) : e \in AnyElements}
        \cup {List(items) : items \in UNION {[1..n -> AnyElements] : n \in 0..MaxItems}}

(***************************************************************************)
(* The endpoints __main__ calls and what the upstream may answer.  A       *)
(* validated model is a function from field names to values, NULL for None.*)
(***************************************************************************)
AuthEndpoint == [path |-> "/auth/login", arg |-> ""]
DeviceTypesEndpoint == [path |-> "/devices/types", arg |-> ""]
SensorTypesEndpoint == [path |-> "/sensors/types", arg |-> ""]
FindEndpoint == [path |-> "/vehicles/find", arg |-> ""]
DetailEndpoint(v_id) == [path |-> "/vehicles/{v_id}", arg |-> v_id]
DriversEndpoint(p_id) == [path |-> "/Drivers/find", arg |-> p_id]

\* api_calls_templates, lines 950-1023: path and db_table of the five report calls
ReportTemplates ==
    << [path |-> "/vehicles/mileageAndMotohours", db_table |-> "mileage_motohours",
        is_body_list_of_ids |-> FALSE],
       [path |-> "/vehicles/fuelConsumption", db_table |-> "fuel_consumption",
        is_body_list_of_ids |-> FALSE],
       [path |-> "/vehicles/fuelInOut", db_table |-> "fuel_events",
        is_body_list_of_ids |-> FALSE],
       [path |-> "/vehicles/moveStop", db_table |-> NULL,
        is_body_list_of_ids |-> FALSE],
       [path |-> "/vehicles/getlastdata", db_table |-> "last_data",
        is_body_list_of_ids |-> TRUE] >>

ReportPaths == {ReportTemplates[i].path : i \in 1..Len(ReportTemplates)}

VehicleListItem(v_id, p_id) == [vehicleId |-> v_id, parentId |-> p_id]

\* the fields of VehicleDetailResponseSchema that save_vehicle_detail_data reads;
\* an absent collection is the empty sequence (the code tests truthiness only)
VehicleDetail(v_id) ==
    [vehicleId |-> v_id, name |-> "n", deviceTypeId |-> "d1", parentId |-> "p2",
     locationByCellId |-> "false",
     customFields |-> << [id |-> "cf1", name |-> "n", forTooltip |-> "true"] >>,
     sensors |-> << [id |-> "s1", name |-> "n", type |-> [k |-> "int", v |-> "7"],
                     isInverted |-> "true"] >>,
     drivers |-> << [id |-> "dr1", name |-> "n", isDefault |-> NULL] >>,
     statusHistory |-> << [status |-> "1", date |-> "t", description |-> NULL,
                           additionalInfo |-> NULL] >>,
     cmsv6Parameters |-> << [id |-> "c1", enabled |-> "true"] >>,
     commandTemplates |-> << [id |-> "ct1", name |-> "n"] >>,
     inspectionTasks |-> << [id |-> "it1", enabled |-> NULL, name |-> "n"] >>]

\* the sensor types the upstream may send in a vehicle detail: the integer code
\* of a sensor type that /sensors/types lists, its name, the integer code of a
\* type it does not list, and a name it does not list
IntCode(c) == [k |-> "int", v |-> c]
Label(s) == [k |-> "str", v |-> s]

RawSensorTypes == {IntCode("7"), Label("FuelLevel"), IntCode("9"), Label("Unknown")}

\* strings that int() of pydantic's lax mode parses
NumericStrings == {"7", "9"}

\* VehicleSensorSchema.type: Optional[int] (glonass_schemas.py:442).  An int is
\* kept, a string of digits becomes the int, any other string fails validation
VehicleSensorSchema(raw) ==
    IF raw.k = "str" /\ raw.v \notin NumericStrings
    THEN [ok |-> FALSE, type |-> raw]
    ELSE [ok |-> TRUE, type |-> IntCode(raw.v)]

\* the body of GET /vehicles/{v_id} whose one sensor carries the type raw, as
\* VehicleDetailResponseSchema.model_validate takes it
DetailBody(v_id, raw) ==
    LET sensor == VehicleSensorSchema(raw)
        detail == VehicleDetail(v_id)
    IN  [t |-> "object", ok |-> sensor.ok, raw |-> raw,
         data |-> IF sensor.ok
                  THEN [detail EXCEPT !.sensors =
                            << [detail.sensors[1] EXCEPT !.type = sensor.type] >>]
                  ELSE Junk]

ReportItem(path, v_id) ==
    CASE path = "/vehicles/mileageAndMotohours" ->
            [vehicleId |-> v_id,
             periods |-> << [start |-> "s", end |-> "e", mileage |-> "m"] >>]
      [] path = "/vehicles/fuelConsumption" ->
            [vehicleId |-> v_id,
             periods |-> << [start |-> "s", end |-> "e", fuelConsumption |-> NULL] >>]
      [] path = "/vehicles/fuelInOut" ->
            [vehicleId |-> v_id,
             fuels |-> << [event |-> "1", startDate |-> "s", endDate |-> NULL,
                           valueFuel |-> "f"] >>]
      [] path = "/vehicles/moveStop" ->
            [vehicleId |-> v_id,
             moves |-> << [eventId |-> "1", start |-> "s", end |-> "e",
                           mileage |-> "m"] >>,
             stops |-> << [eventId |-> "2", start |-> "s", end |-> "e",
                           address |-> "a"] >>]
      [] path = "/vehicles/getlastdata" ->
            [vehicleId |-> v_id, vehicleNumber |-> "n", geozones |-> <<>>]

\* an element of the /sensors/types array (SensorTypeSchema, every field of which
\* is optional); the upstream may list one name under two ids, an empty name, or
\* an element without id
SensorType(id, name) == [id |-> id, name |-> name, description |-> NULL]

DriverInfo(p_id) ==
    [id |-> "dr1", name |-> "n", parentId |-> p_id, exclusive |-> NULL,
     deleted |-> "false"]

\* a well-formed array of one element, the same array with an element the schema
\* rejects added, and the element alone where an array is expected
ListBodies(good) ==
    {List(<<Elem(TRUE, good)>>), List(<<Elem(TRUE, good), Elem(FALSE, Junk)>>),
     Obj(TRUE, good)}

Bodies(endpoint) ==
    CASE endpoint.path = "/any" -> AnyBodies
      [] endpoint.path = "/auth/login" ->
            {Obj(TRUE, [AuthId |-> "tok", User |-> "u"]),
             Obj(TRUE, [AuthId |-> "", User |-> "u"]),
             Obj(FALSE, Junk), List(<<>>)}
      [] endpoint.path = "/devices/types" ->
            ListBodies([deviceTypeId |-> "d1", deviceTypeName |-> "n"])
      [] endpoint.path = "/sensors/types" ->
            ListBodies(SensorType("7", "FuelLevel"))
                \cup {List(<<Elem(TRUE, SensorType("7", "FuelLevel")),
                             Elem(TRUE, SensorType("8", "FuelLevel")),
                             Elem(TRUE, SensorType("6", "")),
                             Elem(TRUE, SensorType(NULL, "NoId"))>>)}
      [] endpoint.path = "/vehicles/find" ->
            ListBodies(VehicleListItem("v1", "p1"))
                \cup {List(<<>>),
                      List(<<Elem(TRUE, VehicleListItem("v1", "p1")),
                             Elem(TRUE, VehicleListItem("v2", "p2"))>>)}
      [] endpoint.path = "/vehicles/{v_id}" ->
            {DetailBody(endpoint.arg, raw) : raw \in RawSensorTypes}
                \cup {Obj(FALSE, Junk), List(<<>>)}
      [] endpoint.path \in ReportPaths ->
            ListBodies(ReportItem(endpoint.path, "v1"))
      [] endpoint.path = "/Drivers/find" -> ListBodies(DriverInfo(endpoint.arg))

(***************************************************************************)
(* From validated models to insert_data calls.  A write is [tbl, data].    *)
(***************************************************************************)
\* model_dump(exclude_none=True) of a flat model
Dump(m) == Restrict(m, {f \in DOMAIN m : m[f] # NULL})

BoolAsReceived(x) == x

\* 1 if x else 0
Bool01(x) == IF x \in {NULL, "false", "0", ""} THEN "0" ELSE "1"

Write(t, data) == [tbl |-> t, data |-> data]

RECURSIVE Concat(_)
Concat(seqs) == IF seqs = <<>> THEN <<>> ELSE Head(seqs) \o Concat(Tail(seqs))

EmptyMap == [x \in {} |-> x]

\* lines 859-867: one insert_data per DeviceTypeSchema
DeviceTypeWrites(items) ==
    [i \in 1..Len(items) |-> Write("device_types", Dump(items[i]))]

\* lines 876-883: one insert_data per SensorTypeSchema
SensorTypeWrites(items) ==
    [i \in 1..Len(items) |-> Write("sensor_types", Dump(items[i]))]

RECURSIVE SensorTypeMapOfEveryItem(_)
SensorTypeMapOfEveryItem(items) ==
    IF items = <<>> THEN EmptyMap
    ELSE LET st_item == items[Len(items)]
             before == SensorTypeMapOfEveryItem(SubSeq(items, 1, Len(items) - 1))
         IN  (st_item.name :> st_item.id) @@ before

\* lines 877-885: the name -> id map, cleared and rebuilt; a later item wins
RECURSIVE SensorTypeMap(_)
SensorTypeMap(items) ==
    IF items = <<>> THEN EmptyMap
    ELSE LET st_item == items[Len(items)]
             before == SensorTypeMap(SubSeq(items, 1, Len(items) - 1))
         IN  IF st_item.name \notin {NULL, ""} /\ st_item.id # NULL
             THEN (st_item.name :> st_item.id) @@ before
             ELSE before

\* lines 701-706: the sensor_type_id foreign key of a sensor
sensor_type_id_fk(sensor, map) ==
    IF sensor.type.k = "str" /\ sensor.type.v \in DOMAIN map
    THEN map[sensor.type.v]
    ELSE IF sensor.type.k = "int" THEN sensor.type.v
    ELSE NULL

\* lines 790-802: tpl_data.pop("id") / task_data.pop("id") raise KeyError when the
\* dump has no id; the writes made before that have happened
RECURSIVE PopIdWrites(_, _, _, _)
PopIdWrites(t, idcol, vehicleId, items) ==
    IF items = <<>> THEN [ws |-> <<>>, raised |-> FALSE]
    ELSE LET d == Dump(items[1])
         IN  IF "id" \notin DOMAIN d THEN [ws |-> <<>>, raised |-> TRUE]
             ELSE LET rest == PopIdWrites(t, idcol, vehicleId, Tail(items))
                      renamed == [col \in ((DOMAIN d \ {"id"})
                                              \cup {"vehicleId", idcol}) |->
                                    IF col = "vehicleId" THEN vehicleId
                                    ELSE IF col = idcol THEN d["id"]
                                    ELSE d[col]]
                      data == IF t = "vehicle_inspection_tasks"
                              THEN [enabled |-> Bool01(Get(d, "enabled"))] @@ renamed
                              ELSE renamed
                  IN  [ws |-> <<Write(t, data)>> \o rest.ws, raised |-> rest.raised]

DetailLast(main, children) == children \o <<main>>

\* line 681: insert_data(conn, "vehicle_details", main_data) comes before the
\* loops over the embedded collections (lines 683-802)
DetailFirst(main, children) == <<main>> \o children

\* save_vehicle_detail_data, lines 618-802
save_vehicle_detail_data(detail_data, map) ==
    LET v == detail_data.vehicleId
        main_data == [vehicleId |-> v, name |-> detail_data.name,
                      deviceTypeId |-> detail_data.deviceTypeId,
                      parentId |-> detail_data.parentId,
                      locationByCellId |-> Bool01(detail_data.locationByCellId)]
        cfs == [i \in 1..Len(detail_data.customFields) |->
                    LET cf == detail_data.customFields[i]
                    IN  Write("vehicle_custom_fields_detail",
                              [vehicleId |-> v, custom_field_id |-> cf.id,
                               name |-> cf.name,
                               forTooltip |-> Bool01(cf.forTooltip)])]
        sensors == [i \in 1..Len(detail_data.sensors) |->
                    LET sensor == detail_data.sensors[i]
                    IN  Write("vehicle_sensors_detail",
                              [vehicleId |-> v, sensor_id |-> sensor.id,
                               name |-> sensor.name,
                               type_str |-> IF sensor.type.k = "none" THEN NULL
                                            ELSE sensor.type.v,
                               sensor_type_id |-> sensor_type_id_fk(sensor, map),
                               isInverted |-> Bool01(sensor.isInverted)])]
        drivers == [i \in 1..Len(detail_data.drivers) |->
                    LET driver_assigned == detail_data.drivers[i]
                    IN  Write("vehicle_drivers_assigned",
                              [vehicleId |-> v, driver_id |-> driver_assigned.id,
                               name |-> driver_assigned.name,
                               isDefault |-> Bool01(driver_assigned.isDefault)])]
        history == [i \in 1..Len(detail_data.statusHistory) |->
                    LET history_item == detail_data.statusHistory[i]
                    IN  Write("vehicle_status_history_items",
                              [vehicleId |-> v, status |-> history_item.status,
                               date |-> history_item.date,
                               description |-> history_item.description,
                               additionalInfo |-> history_item.additionalInfo])]
        cms == [i \in 1..Len(detail_data.cmsv6Parameters) |->
                    LET d == Dump(detail_data.cmsv6Parameters[i])
                    IN  Write("vehicle_cmsv6_params",
                              [vehicleId |-> v, cms_id |-> Get(d, "id"),
                               enabled |-> Bool01(Get(d, "enabled"))])]
        templates == PopIdWrites("vehicle_command_templates", "command_template_id",
                                 v, detail_data.commandTemplates)
        tasks == PopIdWrites("vehicle_inspection_tasks", "task_id", v,
                             detail_data.inspectionTasks)
        first == DetailFirst(Write("vehicle_details", main_data),
                             cfs \o sensors \o drivers \o history \o cms
                                \o templates.ws)
    IN  IF templates.raised THEN [ws |-> first, raised |-> TRUE]
        ELSE [ws |-> first \o tasks.ws, raised |-> tasks.raised]

\* d[new] = d.pop(old, None)
PopInto(d, old, new) == (new :> Get(d, old)) @@ Restrict(d, DOMAIN d \ {old})

\* lines 1096-1215: the insert_data calls for one validated report or drivers
\* response; /vehicles/moveStop has no db_table, so line 1098 skips it
ItemWrites(db_table, item) ==
    CASE db_table \in {"mileage_motohours", "fuel_consumption"} ->
            [i \in 1..Len(item.periods) |->
                LET period_data == [vehicleId |-> item.vehicleId]
                                        @@ Dump(item.periods[i])
                IN  Write(db_table,
                          PopInto(PopInto(period_data, "start", "period_start"),
                                  "end", "period_end"))]
      [] db_table = "fuel_events" ->
            [i \in 1..Len(item.fuels) |->
                LET event_data == [vehicleId |-> item.vehicleId]
                                        @@ Dump(item.fuels[i])
                IN  Write(db_table,
                          PopInto(PopInto(PopInto(event_data, "event", "event_type"),
                                          "startDate", "event_startDate"),
                                  "endDate", "event_endDate"))]
      [] db_table = "last_data" ->
            << Write(db_table,
                     [geozones |-> IF item.geozones = <<>> THEN NULL ELSE "json"]
                        @@ Dump([vehicleId |-> item.vehicleId,
                                 vehicleNumber |-> item.vehicleNumber])) >>
      [] db_table = "drivers" ->
            << Write(db_table,
                     [exclusive |-> Bool01(item.exclusive),
                      deleted |-> Bool01(item.deleted)]
                        @@ Dump([id |-> item.id, name |-> item.name,
                                 parentId |-> item.parentId])) >>
      [] OTHER -> <<>>

ReportWrites(db_table, items) ==
    IF db_table = NULL THEN <<>>
    ELSE Concat([i \in 1..Len(items) |-> ItemWrites(db_table, items[i])])

\* the insert_data calls of ws, in order, each with its own rowid and timestamp
\* (r is what the first call returns, rest what the calls after it leave)
RECURSIVE ApplyWrites(_, _, _, _, _)
ApplyWrites(db_type, st, rid, now, ws) ==
    IF ws = <<>> THEN [store |-> st, rid |-> rid, clock |-> now, ok |-> 0]
    ELSE CHOOSE after \in
            {[rest EXCEPT !.ok = @ + (IF r.ok THEN 1 ELSE 0)] :
                <<r, rest>> \in
                    {<<r, ApplyWrites(db_type, r.store, rid + 1, now + 1, tl)>> :
                        <<r, tl>> \in
                            {<<insert_data(db_type, st, w[1].tbl, w[1].data, rid, now),
                               Tail(w)>> : w \in {ws}}}} : TRUE

(***************************************************************************)
(* The attempts of make_api_request.  In the re-run the upstream answers   *)
(* as in the first run: an attempt is enabled only if it ends the          *)
(* invocation with what the same call returned (or raised) the first time. *)
(***************************************************************************)
Outcome(c) == [pc |-> c.pc, result |-> c.result]

\* calls of one pipeline run that the upstream lets end in None
MaxFailures == 2

MayFail(c) == c.result = None => (pc = "harness" \/ log.failures < MaxFailures)

\* the Retry-After values of a 429: any header for the executor on its own; in a
\* pipeline run, where a numeric hint only lengthens the sleep, none or one that
\* int() rejects
Headers ==
    IF pc = "harness" THEN RetryAfterHeaders
    ELSE {NoHeader, [t |-> "str", s |-> <<"sup2">>]}

SameAsFirstRun(c) ==
    run = 1 \/ (c.endpoint \in DOMAIN ret /\ ret[c.endpoint] = Outcome(c))

ReturnDroppedAfterRetry(c, kind, result) ==
    [c EXCEPT !.pc = "returned", !.nreq = @ + 1, !.last = kind,
              !.all429 = @ /\ kind = "http429",
              !.result = IF c.current_retries > 0 THEN None ELSE result]

\* the invocation ends with a return value: of the try block (lines 491-538), of
\* line 571, or of the recursive call, which line 552 returns as it is
Returned(c, kind, result) ==
    [c EXCEPT !.pc = "returned", !.nreq = @ + 1, !.last = kind,
              !.all429 = @ /\ kind = "http429", !.result = result]

RetryWithoutToken(c) ==
    [endpoint |-> c.endpoint, expect |-> c.expect,
     request |-> [c.request EXCEPT !.token = NULL],
     current_retries |-> c.current_retries + 1]

\* lines 552-561: the arguments of the recursive call: method, endpoint_path,
\* token, json_data, params, response_model and response_list_model as they were
\* received, and current_retries + 1
RetryArguments(c) ==
    [endpoint |-> c.endpoint, expect |-> c.expect, request |-> c.request,
     current_retries |-> c.current_retries + 1]

\* requests.request returns a 2xx response; lines 491-538
SendOk ==
    /\ call.pc = "sending"
    /\ \E body \in Bodies(call.endpoint) :
        LET c == [Returned(call, "ok", Validate(call.expect, body))
                    EXCEPT !.body = body]
        IN  SameAsFirstRun(c) /\ MayFail(c) /\ call' = c
    /\ UNCHANGED <<ncalls, storeVars, mainVars>>

\* except HTTPError (lines 539-564).  A 429 with retries left (line 543) sleeps
\* wait_time and makes the recursive call of line 552 with current_retries + 1,
\* unless int() raises ValueError at line 547, which nothing catches.  Any other
\* status, or a 429 with the retries used up, falls through to the return None
\* of line 571.  The re-run repeats the final answer of the first run.
SendHttpError ==
    /\ call.pc = "sending"
    /\ \E status \in {429, 500}, h \in Headers :
        LET kind == IF status = 429 THEN "http429" ELSE "httpError"
            raise == [call EXCEPT !.pc = "raised", !.nreq = @ + 1, !.last = kind,
                                  !.all429 = @ /\ status = 429]
            retry == [call EXCEPT !.nreq = @ + 1, !.last = kind,
                                  !.all429 = @ /\ status = 429,
                                  !.retry_after = h,
                                  !.prev_wait = call.wait_time,
                                  !.wait_time = WaitTime(call.current_retries, h),
                                  !.hinted = @ \/ HintApplies(h),
                                  !.endpoint = RetryArguments(call).endpoint,
                                  !.expect = RetryArguments(call).expect,
                                  !.request = RetryArguments(call).request,
                                  !.current_retries =
                                        RetryArguments(call).current_retries]
            fail == Returned(call, kind, None)
        IN  IF ShouldRetry(status, call.current_retries)
            THEN IF WaitRaises(h)
                 THEN SameAsFirstRun(raise) /\ call' = raise
                 ELSE run = 1 /\ call' = retry
            ELSE h = NoHeader /\ SameAsFirstRun(fail) /\ MayFail(fail) /\ call' = fail
    /\ UNCHANGED <<ncalls, storeVars, mainVars>>

\* requests.exceptions.Timeout (line 565) and any other RequestException (line 569)
SendNoResponse ==
    /\ call.pc = "sending"
    /\ \E kind \in {"timeout", "connectionError"} :
        LET c == Returned(call, kind, None)
        IN  SameAsFirstRun(c) /\ MayFail(c) /\ call' = c
    /\ UNCHANGED <<ncalls, storeVars, mainVars>>

Send == SendOk \/ SendHttpError \/ SendNoResponse

(***************************************************************************)
(* The executor on its own: a harness that invokes make_api_request with   *)
(* every combination of response_model / response_list_model.              *)
(***************************************************************************)
\* the other arguments of the harness's calls: a GET without token and body, a
\* POST with a body and no token (as authenticate makes), a POST with token and
\* body (as the roster and report calls)
HarnessRequest(expect) ==
    CASE expect = "none" -> Request("GET", NULL, None)
      [] expect = "single" -> Request("POST", NULL, [payload |-> "payload"])
      [] expect = "list" -> Request("POST", "token", [payload |-> "payload"])

HarnessCall ==
    /\ pc = "harness"
    /\ call.pc \in {"idle", "returned", "raised"}
    /\ ncalls < MaxCalls
    /\ \E expect \in Expectations :
            call' = NewCall(AnyEndpoint, expect, HarnessRequest(expect))
    /\ ncalls' = ncalls + 1
    /\ UNCHANGED <<storeVars, mainVars>>

\* what a run has done so far: API calls issued, successful insert_data calls,
\* calls that returned None, whether authenticate() came back without a token,
\* the vehicles whose detail was validated and those whose detail fetch failed,
\* the table and vehicleId of every insert_data call in the order of the calls,
\* the seconds slept by time.sleep since the last call returned
NewLog ==
    [calls |-> 0, writes |-> 0, failures |-> 0, auth_failed |-> FALSE,
     detail_ok |-> {}, detail_failed |-> {}, attempts |-> <<>>, pause |-> 0,
     requested |-> EmptyMap, report |-> None, startup |-> None]

InitCommon ==
    /\ run = 1
    /\ call = IdleCall
    /\ ncalls = 0
    /\ DB_TYPE \in {"sqlite", "postgres"}
    /\ store = {}
    /\ nextRid = 1
    /\ clock = 1
    /\ writes = <<>>
    /\ auth_token = NULL
    /\ SENSOR_TYPE_NAME_TO_ID_MAP = EmptyMap
    /\ active_vehicle_ids = <<>>
    /\ all_parent_ids_from_vehicles = {}
    /\ todo = <<>>
    /\ ret = EmptyMap
    /\ snapshot = {}
    /\ log = NewLog

InitExec == InitCommon /\ pc = "harness"

NextExec == HarnessCall \/ Send

SpecExec == InitExec /\ [][NextExec]_vars

(***************************************************************************)
(* __main__ (lines 806-1238).  Each step takes the value its pending       *)
(* make_api_request call returned, does everything the code does with it   *)
(* (every insert_data call included) and issues the next call.             *)
(***************************************************************************)
Remembered == IF run = 1 THEN (call.endpoint :> Outcome(call)) @@ ret ELSE ret

\* `if resp and isinstance(resp, list)`: a non-empty list of validated models
NonEmptyList(result) == result.t = "list" /\ result.items # <<>>

TokenAlsoEmpty(token) == token # NULL

\* line 844: if auth_token
TokenTruthy(token) == token \notin {NULL, ""}

\* the log after the insert_data calls ws, r.ok of which succeeded
Attempted(lg, ws, r) ==
    [lg EXCEPT !.writes = @ + r.ok,
               !.attempts = @ \o [i \in 1..Len(ws) |->
                                    [tbl |-> ws[i].tbl,
                                     v |-> Get(ws[i].data, "vehicleId"),
                                     data |-> ws[i].data]]]

\* the writes ws applied to the store, with the bookkeeping of the run
Persist(ws, lg) ==
    \E w \in {ws} : \E r \in {ApplyWrites(DB_TYPE, store, nextRid, clock, w)} :
        /\ store' = r.store
        /\ nextRid' = r.rid
        /\ clock' = r.clock
        /\ log' = Attempted(lg, w, r)

Issued(lg) == [lg EXCEPT !.calls = @ + 1]

\* line 1232: logger.info("Все API-вызовы из основного цикла обработаны."), the
\* one message __main__ logs when its last loop has ended; the message is fixed
\* text, and no statement of the module counts anything the run skipped
RunEndReport == [message |-> "all API calls of the main loop processed"]

Reported(lg) == [lg EXCEPT !.report = RunEndReport]

\* the log once make_api_request was called for the template task (line 1078):
\* how many times each template was requested with each body
Requested(lg, task) ==
    LET req == [endpoint |-> task.endpoint, json_data |-> task.json_data]
    IN  [lg EXCEPT !.requested =
            IF req \in DOMAIN @ THEN [@ EXCEPT ![req] = @ + 1]
            ELSE (req :> 1) @@ @]

\* the log once the pending call's return value has been taken
Consumed ==
    [log EXCEPT !.failures = @ + (IF call.result = None THEN 1 ELSE 0),
                !.pause = 0]

\* time.sleep(seconds) in __main__
Slept(lg, seconds) == [lg EXCEPT !.pause = @ + seconds]

ReadyWithoutCredentials(startup) == startup.db_conn /\ startup.created

\* lines 817-841: the run goes on to authenticate() only with a connection
\* (line 818), with create_tables returned (lines 819-829) and with API_LOGIN and
\* API_PASSWORD set (line 834); otherwise exit(1)
Ready(startup) == startup.db_conn /\ startup.created /\ startup.credentials

\* lines 806-842: the old SQLite file is removed; get_db_connection; create_tables,
\* whose conn.execute(text(...)) (line 172) a sqlite3 connection rejects with
\* TypeError, so that a SQLite run ends at line 829; the credentials check
StartRun ==
    /\ pc = "start"
    /\ \E db_conn, tables, credentials \in BOOLEAN :
        LET startup == [db_conn |-> db_conn,
                        created |-> db_conn /\ tables /\ DB_TYPE # "sqlite",
                        credentials |-> credentials]
            lg == [log EXCEPT !.startup = startup]
        IN  /\ run = 2 => Ready(startup)
            /\ store' = IF DB_TYPE = "sqlite" THEN {} ELSE store
            /\ IF Ready(startup)
               THEN /\ pc' = "auth"
                    /\ call' = NewCall(AuthEndpoint, "single",
                                    Request("POST", NULL,
                                            [login |-> "API_LOGIN",
                                             password |-> "API_PASSWORD"]))
                    /\ log' = Issued(lg)
               ELSE pc' = "exit" /\ call' = call /\ log' = lg
    /\ UNCHANGED <<run, ncalls, DB_TYPE, nextRid, clock, writes, auth_token,
                   SENSOR_TYPE_NAME_TO_ID_MAP, active_vehicle_ids,
                   all_parent_ids_from_vehicles, todo, ret, snapshot>>

\* authenticate (lines 575-588) and lines 843-854
AfterAuth ==
    /\ pc = "auth" /\ call.pc = "returned"
    /\ LET response_data == call.result
           token == IF response_data.t = "model" THEN response_data.data.AuthId
                    ELSE NULL
           lg == [Consumed EXCEPT !.auth_failed = token \in {NULL, ""}]
       IN  /\ auth_token' = token
           /\ IF TokenTruthy(token)
              THEN /\ pc' = "device_types"
                   /\ call' = NewCall(DeviceTypesEndpoint, "list",
                                   Request("GET", token, None))
                   /\ log' = Issued(Slept(lg, REQUEST_DELAY_SECONDS))
              ELSE /\ pc' = "exit"
                   /\ call' = IdleCall
                   /\ log' = lg
    /\ ret' = Remembered
    /\ UNCHANGED <<run, ncalls, storeVars, SENSOR_TYPE_NAME_TO_ID_MAP,
                   active_vehicle_ids, all_parent_ids_from_vehicles, todo, snapshot>>

\* lines 857-871
AfterDeviceTypes ==
    /\ pc = "device_types" /\ call.pc = "returned"
    /\ LET device_types_resp == call.result
       IN  Persist(IF NonEmptyList(device_types_resp)
                   THEN DeviceTypeWrites(device_types_resp.items) ELSE <<>>,
                   Issued(Slept(Consumed, REQUEST_DELAY_SECONDS)))
    /\ pc' = "sensor_types"
    /\ call' = NewCall(SensorTypesEndpoint, "list", Request("GET", auth_token, None))
    /\ ret' = Remembered
    /\ UNCHANGED <<run, ncalls, DB_TYPE, writes, auth_token,
                   SENSOR_TYPE_NAME_TO_ID_MAP, active_vehicle_ids,
                   all_parent_ids_from_vehicles, todo, snapshot>>

\* lines 873-891
AfterSensorTypes ==
    /\ pc = "sensor_types" /\ call.pc = "returned"
    /\ LET sensor_types_resp == call.result
       IN  IF NonEmptyList(sensor_types_resp)
           THEN /\ Persist(SensorTypeWrites(sensor_types_resp.items),
                           Issued(Slept(Consumed, REQUEST_DELAY_SECONDS)))
                /\ SENSOR_TYPE_NAME_TO_ID_MAP' = SensorTypeMap(sensor_types_resp.items)
           ELSE /\ Persist(<<>>, Issued(Slept(Consumed, REQUEST_DELAY_SECONDS)))
                /\ UNCHANGED SENSOR_TYPE_NAME_TO_ID_MAP
    /\ pc' = "roster"
    /\ call' = NewCall(FindEndpoint, "list", Request("POST", auth_token, EmptyMap))
    /\ ret' = Remembered
    /\ UNCHANGED <<run, ncalls, DB_TYPE, writes, auth_token, active_vehicle_ids,
                   all_parent_ids_from_vehicles, todo, snapshot>>

\* every order in which `for p_id in all_parent_ids_from_vehicles` may iterate
Orderings(S) ==
    {o \in [1..Cardinality(S) -> S] : \A i, j \in DOMAIN o : i # j => o[i] # o[j]}

FirstIdOnly(call_template, active) ==
    IF call_template.is_body_list_of_ids THEN [body |-> SubSeq(active, 1, 1)]
    ELSE [vehicleIds |-> SubSeq(active, 1, 1)]

\* lines 1052-1065: the body of a report request: active_vehicle_ids itself for
\* /vehicles/getlastdata (body), the template with them as vehicleIds otherwise
actual_json_data(call_template, active) ==
    IF call_template.is_body_list_of_ids THEN [body |-> active]
    ELSE [vehicleIds |-> active]

\* lines 1024-1041: the template appended for the parent id p_id
DriversTemplate(p_id) ==
    [endpoint |-> DriversEndpoint(p_id), db_table |-> "drivers",
     json_data |-> [parentId |-> p_id]]

\* a report template with its request body
ReportTask(call_template, active) ==
    [endpoint |-> [path |-> call_template.path, arg |-> ""],
     db_table |-> call_template.db_table,
     json_data |-> actual_json_data(call_template, active)]

DriversBeforeReports(active, drivers_order) ==
    [i \in 1..Len(drivers_order) |-> DriversTemplate(drivers_order[i])]
    \o (IF active = <<>> THEN <<>>
        ELSE [i \in 1..Len(ReportTemplates) |->
                ReportTask(ReportTemplates[i], active)])

\* lines 950-1041: api_calls_templates; line 1054 skips a template that requires
\* vehicle ids when there are none
ReportTasks(active, drivers_order) ==
    (IF active = <<>> THEN <<>>
     ELSE [i \in 1..Len(ReportTemplates) |->
            ReportTask(ReportTemplates[i], active)])
    \o [i \in 1..Len(drivers_order) |-> DriversTemplate(drivers_order[i])]

\* the first pass of the loop of line 1046, or the end of the run (lines 1232-1238);
\* each template skipped at line 1054 sleeps REQUEST_DELAY_SECONDS (line 1057)
StartReports(active, parents, lg) ==
    \E drivers_order \in Orderings(parents) :
        LET tasks == ReportTasks(active, drivers_order)
        IN  IF tasks = <<>>
            THEN /\ pc' = "done" /\ call' = IdleCall /\ todo' = <<>>
                 /\ log' = Reported(lg)
            ELSE /\ pc' = "reports"
                 /\ call' = NewCall(tasks[1].endpoint, "list",
                                 Request("POST", auth_token, tasks[1].json_data))
                 /\ todo' = tasks
                 /\ log' = Requested(Issued(Slept(lg,
                                IF active = <<>>
                                THEN Len(ReportTemplates) * REQUEST_DELAY_SECONDS
                                ELSE 0)), tasks[1])

RECURSIVE NonNullIds(_)
NonNullIds(items) ==
    IF items = <<>> THEN <<>>
    ELSE (IF items[1].vehicleId # NULL THEN <<items[1].vehicleId>> ELSE <<>>)
            \o NonNullIds(Tail(items))

\* get_all_vehicles_with_data (lines 591-615) and lines 894-921
AfterRoster ==
    /\ pc = "roster" /\ call.pc = "returned"
    /\ LET response_data == call.result
           all_vehicles_data_list ==
                IF NonEmptyList(response_data) THEN response_data.items ELSE <<>>
           active == NonNullIds(all_vehicles_data_list)
           parents == {all_vehicles_data_list[i].parentId :
                            i \in 1..Len(all_vehicles_data_list)} \ {NULL, ""}
       IN  /\ active_vehicle_ids' = active
           /\ all_parent_ids_from_vehicles' = parents
           /\ IF active # <<>>
              THEN /\ pc' = "details"
                   /\ todo' = active
                   /\ call' = NewCall(DetailEndpoint(active[1]), "single",
                                   Request("GET", auth_token, None))
                   /\ log' = Issued(Consumed)
              ELSE StartReports(active, parents, Consumed)
    /\ ret' = Remembered
    /\ UNCHANGED <<run, ncalls, storeVars, auth_token, SENSOR_TYPE_NAME_TO_ID_MAP,
                   snapshot>>

RosterParentsOnly(parents, detail_response) == parents

\* lines 928-929: if detail_response.parentId:
\*     all_parent_ids_from_vehicles.add(detail_response.parentId)
WithDetailParent(parents, detail_response) ==
    IF detail_response.parentId \notin {NULL, ""}
    THEN parents \cup {detail_response.parentId}
    ELSE parents

\* one pass of the loop of lines 913-936: the detail of vehicle todo[1] has come
\* back; save_vehicle_detail_data is called outside any try, so that an exception
\* it raises ends the run
AfterDetail ==
    /\ pc = "details" /\ call.pc = "returned"
    /\ \E saved \in {IF call.result.t = "model"
                       THEN save_vehicle_detail_data(call.result.data,
                                                     SENSOR_TYPE_NAME_TO_ID_MAP)
                       ELSE [ws |-> <<>>, raised |-> FALSE]} :
       \E r \in {ApplyWrites(DB_TYPE, store, nextRid, clock, saved.ws)} :
       LET v_id == todo[1]
           detail_response == call.result
           valid == detail_response.t = "model"
           parents == IF valid /\ ~saved.raised
                      THEN WithDetailParent(all_parent_ids_from_vehicles,
                                            detail_response.data)
                      ELSE all_parent_ids_from_vehicles
           lg == [Consumed EXCEPT
                    !.detail_ok = IF valid THEN @ \cup {v_id} ELSE @,
                    !.detail_failed = IF valid /\ ~saved.raised THEN @
                                      ELSE @ \cup {v_id}]
           lgw == Attempted(lg, saved.ws, r)
       IN  /\ store' = r.store
           /\ nextRid' = r.rid
           /\ clock' = r.clock
           /\ all_parent_ids_from_vehicles' = parents
           /\ IF saved.raised
              THEN pc' = "crashed" /\ call' = IdleCall /\ todo' = <<>> /\ log' = lgw
              ELSE IF Len(todo) > 1
              THEN /\ pc' = "details"
                   /\ todo' = Tail(todo)
                   /\ call' = NewCall(DetailEndpoint(todo[2]), "single",
                                   Request("GET", auth_token, None))
                   /\ log' = Issued(Slept(lgw, DETAIL_REQUEST_DELAY_SECONDS))
              ELSE StartReports(active_vehicle_ids, parents,
                                Slept(lgw, DETAIL_REQUEST_DELAY_SECONDS))
    /\ ret' = Remembered
    /\ UNCHANGED <<run, ncalls, DB_TYPE, writes, auth_token,
                   SENSOR_TYPE_NAME_TO_ID_MAP, active_vehicle_ids, snapshot>>

RemainingUnlessFailed(tasks, validated_response) ==
    IF validated_response = None THEN <<>> ELSE Tail(tasks)

\* the loop of line 1046 has no break and no return: whatever the call returned
\* (lines 1096-1226), the next template is taken
Remaining(tasks, validated_response) == Tail(tasks)

\* one pass of the loop of lines 1046-1230: the response to template todo[1]
AfterReport ==
    /\ pc = "reports" /\ call.pc = "returned"
    /\ LET call_template == todo[1]
           validated_response == call.result
           ws == IF validated_response.t = "list"
                 THEN ReportWrites(call_template.db_table, validated_response.items)
                 ELSE <<>>
           rest == Remaining(todo, validated_response)
       IN  IF rest # <<>>
           THEN /\ Persist(ws, Requested(Issued(Slept(Consumed,
                                                        REQUEST_DELAY_SECONDS)),
                                           rest[1]))
                /\ pc' = "reports"
                /\ todo' = rest
                /\ call' = NewCall(rest[1].endpoint, "list",
                                Request("POST", auth_token, rest[1].json_data))
           ELSE /\ Persist(ws, Reported(Consumed))
                /\ pc' = "done"
                /\ todo' = <<>>
                /\ call' = IdleCall
    /\ ret' = Remembered
    /\ UNCHANGED <<run, ncalls, DB_TYPE, writes, auth_token,
                   SENSOR_TYPE_NAME_TO_ID_MAP, active_vehicle_ids,
                   all_parent_ids_from_vehicles, snapshot>>

\* an exception out of make_api_request: no caller catches it, the interpreter
\* ends the run with a traceback
Crash ==
    /\ pc \in {"auth", "device_types", "sensor_types", "roster", "details", "reports"}
    /\ call.pc = "raised"
    /\ pc' = "crashed"
    /\ call' = IdleCall
    /\ todo' = <<>>
    /\ log' = IF pc = "details"
              THEN [log EXCEPT !.detail_failed = @ \cup {todo[1]}] ELSE log
    /\ ret' = Remembered
    /\ UNCHANGED <<run, ncalls, storeVars, auth_token, SENSOR_TYPE_NAME_TO_ID_MAP,
                   active_vehicle_ids, all_parent_ids_from_vehicles, snapshot>>

\* the run is over: the loop of line 1046 has ended, exit(1) was called, or an
\* exception ended the interpreter
Finished == pc \in {"done", "exit", "crashed"}

\* the program is started again: a new process against the same database and an
\* upstream that answers every call as it did in the first run
Rerun ==
    /\ Finished
    /\ run = 1
    /\ log.calls > 0
    /\ run' = 2
    /\ snapshot' = store
    /\ pc' = "start"
    /\ call' = IdleCall
    /\ auth_token' = NULL
    /\ SENSOR_TYPE_NAME_TO_ID_MAP' = EmptyMap
    /\ active_vehicle_ids' = <<>>
    /\ all_parent_ids_from_vehicles' = {}
    /\ todo' = <<>>
    /\ log' = NewLog
    /\ UNCHANGED <<ncalls, storeVars, ret>>

Init == InitCommon /\ pc = "start"

Next ==
    \/ StartRun
    \/ Send
    \/ AfterAuth
    \/ AfterDeviceTypes
    \/ AfterSensorTypes
    \/ AfterRoster
    \/ AfterDetail
    \/ AfterReport
    \/ Crash
    \/ Rerun

Spec == Init /\ [][Next]_vars

(***************************************************************************)
(* Properties of make_api_request, checked under SpecExec.                 *)
(***************************************************************************)
Ended(c) == c.pc \in {"returned", "raised"}

\* C1: an invocation in which every HTTP response was a 429 ends having made
\* exactly MAX_RETRIES retries, MAX_RETRIES + 1 requests in all, and returns None.
C1_RetryBound ==
    (Ended(call) /\ call.all429 /\ call.nreq > 0) =>
        /\ call.pc = "returned"
        /\ call.result = None
        /\ call.current_retries = MAX_RETRIES
        /\ call.nreq = MAX_RETRIES + 1

\* C6: every invocation ends by returning the raw payload, a validated payload
\* or None; no exception escapes make_api_request.
C6_NeverRaises ==
    /\ call.pc # "raised"
    /\ call.pc = "returned" => call.result.t \in {"None", "raw", "model", "list"}

\* C7: a timeout, a non-2xx status other than 429 or a connection error ends the
\* invocation at once with None: that request is the only one of its frame
\* (one request per retry made before it, and none after it).
C7_NoRetryOnOtherFailures ==
    call.last \in {"timeout", "httpError", "connectionError"} =>
        /\ call.pc = "returned"
        /\ call.result = None
        /\ call.nreq = call.current_retries + 1

C7_Witness ==
    /\ call.pc = "returned"
    /\ call.last = "httpError"
    /\ call.current_retries = 0
    /\ call.nreq = 1

\* a Retry-After value that is a decimal number
NumericHint(h) == h.t = "str" /\ IntParses(h.s)

\* C8: the wait before retry number r is RETRY_DELAY_BASE_SECONDS * 2^r without a
\* numeric Retry-After hint and the larger of that and the hint with one; it is
\* never below the exponential term nor below the hint, and without any hint the
\* waits of one invocation never decrease.
C8_WaitTime ==
    call.current_retries > 0 =>
        LET r == call.current_retries - 1
            h == call.retry_after
            exp == RETRY_DELAY_BASE_SECONDS * Pow2(r)
        IN  /\ ~NumericHint(h) => call.wait_time = exp
            /\ NumericHint(h) =>
                    /\ call.wait_time = Max(exp, IntOf(h.s))
                    /\ call.wait_time >= IntOf(h.s)
            /\ call.wait_time >= exp
            /\ ~call.hinted => call.wait_time >= call.prev_wait

\* a hint of 99 seconds raised the first wait above the 10 seconds of the
\* exponential term, and a later retry without hint waited the exponential term
C8_Witness ==
    /\ call.current_retries = 3
    /\ call.hinted
    /\ call.retry_after = NoHeader
    /\ call.wait_time = 40
    /\ call.prev_wait = 99

(***************************************************************************)
(* insert_data on its own: a harness that hands it records of every table. *)
(* A record carries "1" in its key and foreign-key columns; its other      *)
(* columns carry one of two values, or are left out as                     *)
(* model_dump(exclude_none=True) leaves out a field that is None.          *)
(***************************************************************************)
\* insert_data calls the store harness makes
MaxWrites == 3

KeyCols(t) == unique_cols_map(t)

FkCols(t) == {fk.col : fk \in ForeignKeys(t)}

Full(t, v) ==
    [col \in Columns(t) |-> IF col \in KeyCols(t) \cup FkCols(t) THEN "1" ELSE v]

\* a table name that insert_data has no ON CONFLICT columns for
KeylessTable == "keyless_table"

Records(t) ==
    IF t = KeylessTable THEN {[value |-> "a"]}
    ELSE {Full(t, "a"), Full(t, "b"), Restrict(Full(t, "a"), KeyCols(t))}
            \cup {Restrict(Full(t, "a"), Columns(t) \ {k}) : k \in KeyCols(t)}

\* one insert_data call and its bookkeeping: the rowid sequence, the clock
\* behind retrieved_at, and the record of the call
Written(t, data) ==
    LET r == insert_data(DB_TYPE, store, t, data, nextRid, clock)
    IN  /\ store' = r.store
        /\ nextRid' = nextRid + 1
        /\ clock' = clock + 1
        /\ writes' = <<[tbl |-> t, data |-> data, ok |-> r.ok, tx |-> r.tx,
                          warned |-> r.warned]>>
                        \o (IF writes = <<>> THEN <<>> ELSE <<writes[1]>>)

StoreWrite ==
    /\ pc = "store"
    /\ nextRid <= MaxWrites
    /\ \E t \in TableNames \cup {KeylessTable} :
            \E data \in Records(t) : Written(t, data)
    /\ UNCHANGED <<DB_TYPE, execVars, mainVars>>

InitStore == InitCommon /\ pc = "store"

NextStore == StoreWrite

SpecStore == InitStore /\ [][NextStore]_vars

\* the last two insert_data calls succeeded on the same table with records that
\* carry every natural-key column, with the same values
TwoWritesSameKey ==
    /\ Len(writes) = 2
    /\ writes[1].ok /\ writes[2].ok
    /\ writes[1].tbl = writes[2].tbl
    /\ \A k \in KeyCols(writes[1].tbl) :
            /\ k \in DOMAIN writes[1].data
            /\ k \in DOMAIN writes[2].data
            /\ writes[1].data[k] = writes[2].data[k]

\* C2: after two successful insert_data calls with the same natural key the table
\* holds exactly one row with that key, and each of its non-key columns is what
\* the second record gave (NULL for a column the second record left out).
C2_SecondWriteReplaces ==
    TwoWritesSameKey =>
        LET t == writes[1].tbl
            second == writes[1].data
            rows == {r \in RowsOf(store, t) :
                        \A k \in KeyCols(t) : r.c[k] = second[k]}
        IN  /\ Cardinality(rows) = 1
            /\ \A r \in rows : \A col \in Columns(t) \ KeyCols(t) :
                    r.c[col] = Get(second, col)

(***************************************************************************)
(* Properties of the pipeline, checked under Spec.                         *)
(***************************************************************************)
\* a row without its surrogate id and its retrieved_at
Strip(r) == [tbl |-> r.tbl, c |-> r.c]

\* the same rows, each as many times, retrieved_at and surrogate ids aside
SameContent(s1, s2) ==
    \A x \in {Strip(r) : r \in s1 \cup s2} :
        Cardinality({r \in s1 : Strip(r) = x}) = Cardinality({r \in s2 : Strip(r) = x})

\* C3: when the pipeline has run to its end a second time against an upstream
\* that answered every call as in the first run, the store holds the same rows
\* as after the first run, retrieved_at aside.
C3_RerunSameContent ==
    (run = 2 /\ pc = "done") => SameContent(store, snapshot)

\* C4: when the detail of one vehicle could not be fetched, validated or
\* normalized, the run does not abort, and at its end every other vehicle whose
\* detail was validated has its vehicle_details row.
C4_DetailFailureSkipped ==
    log.detail_failed # {} =>
        /\ pc # "crashed"
        /\ pc = "done" =>
                \A v \in log.detail_ok \ log.detail_failed :
                    \E r \in RowsOf(store, "vehicle_details") : r.c["vehicleId"] = v

\* C5: when authenticate() yields no session token the run has halted: the login
\* was its only API call, no call is pending, no row was written and the store is
\* as the run found it.
C5_AuthFailureHalts ==
    log.auth_failed =>
        /\ pc = "exit"
        /\ call.pc = "idle"
        /\ log.calls = 1
        /\ log.writes = 0
        /\ store = (IF run = 1 THEN {} ELSE snapshot)

C5_Witness ==
    /\ log.auth_failed
    /\ pc = "exit"
    /\ auth_token = NULL
    /\ log.failures = 1

\* the payload has not the shape the caller asked for
ShapeMismatch(c) ==
    /\ c.last = "ok"
    /\ \/ c.expect = "list" /\ c.body.t \in {"object", "text"}
       \/ c.expect = "single" /\ c.body.t = "list"

\* C9: a payload that is no list where a list is expected (or a list where one
\* object is expected) makes make_api_request return None, and the step of the
\* orchestrator that takes that None leaves every row of the store as it was.
C9_ShapeMismatchRejected ==
    [][(call.pc = "returned" /\ ShapeMismatch(call)) =>
            (call.result = None /\ store' = store)]_vars

\* an object came where the list of a report was expected, with rows in the store
C9_Witness ==
    /\ pc = "reports"
    /\ call.pc = "returned"
    /\ ShapeMismatch(call)
    /\ call.body.t = "object"
    /\ store # {}

\* C10: of a list response with an element that fails validation the valid
\* elements are returned to the caller, and (for the device types) persisted.
C10_OnlyInvalidElementRejected ==
    [][(/\ call.pc = "returned" /\ call.last = "ok"
        /\ call.expect = "list" /\ call.body.t = "list") =>
            /\ call.result = ValidatePerElement(call.expect, call.body)
            /\ pc = "device_types" =>
                    \A i \in 1..Len(call.body.items) :
                        call.body.items[i].ok =>
                            \E r \in RowsOf(store', "device_types") :
                                r.c["deviceTypeId"] =
                                    call.body.items[i].data["deviceTypeId"]]_vars

(***************************************************************************)
(* Sensor types: validation, name lookup and the foreign key.              *)
(***************************************************************************)
\* the detail of vehicle todo[1] has come back 2xx with a sensor of type raw
DetailReturned(raw) ==
    /\ pc = "details" /\ call.pc = "returned" /\ call.last = "ok"
    /\ "raw" \in DOMAIN call.body
    /\ call.body.raw = raw

HasRow(st, t, col, val) == \E r \in RowsOf(st, t) : r.c[col] = val

\* the sensor_type_id cells of the sensor rows of vehicle v
SensorTypeIdsOf(st, v) ==
    {r.c["sensor_type_id"] :
        r \in {x \in RowsOf(st, "vehicle_sensors_detail") : x.c["vehicleId"] = v}}

\* the type can be resolved: a name of the name->id map, or the code of a stored
\* sensor type
Listed(raw) ==
    IF raw.k = "str" THEN raw.v \in DOMAIN SENSOR_TYPE_NAME_TO_ID_MAP
    ELSE HasRow(store, "sensor_types", "id", raw.v)

\* the device type of the detail is stored, so that the vehicle_details row can be
DeviceTypeStored ==
    HasRow(store, "device_types", "deviceTypeId", VehicleDetail(todo[1]).deviceTypeId)

\* C11: a detail whose sensor carries its type as the name of a loaded sensor type,
\* or as the integer code of one, passes validation and its sensor row is stored,
\* with sensor_type_id looked up by name for the string and equal to the code for
\* the integer.
C11_PolymorphicSensorType ==
    [][\A raw \in RawSensorTypes :
        (DetailReturned(raw) /\ Listed(raw) /\ DeviceTypeStored) =>
            /\ call.result.t = "model"
            /\ SensorTypeIdsOf(store', todo[1]) =
                    {IF raw.k = "str" THEN SENSOR_TYPE_NAME_TO_ID_MAP[raw.v]
                     ELSE raw.v}]_vars

\* C12: once the reference stage has put name N with id k into the name->id map,
\* a sensor that arrives later in the run with type N is stored with
\* sensor_type_id = k, not NULL.
C12_NameResolvedAfterReferenceLoad ==
    [][\A N \in DOMAIN SENSOR_TYPE_NAME_TO_ID_MAP :
        (DetailReturned(Label(N)) /\ DeviceTypeStored) =>
            \E r \in RowsOf(store', "vehicle_sensors_detail") :
                /\ r.c["vehicleId"] = todo[1]
                /\ r.c["type_str"] = N
                /\ r.c["sensor_type_id"] = SENSOR_TYPE_NAME_TO_ID_MAP[N]
                /\ r.c["sensor_type_id"] # NULL]_vars

\* C13: a sensor whose type cannot be resolved (a name that is not in the map, a
\* code without a sensor_types row) is still stored, with sensor_type_id NULL;
\* neither its vehicle nor the run fails.
C13_UnresolvedTypeStoredAsNull ==
    [][\A raw \in RawSensorTypes :
        (DetailReturned(raw) /\ ~Listed(raw) /\ DeviceTypeStored) =>
            /\ pc' # "crashed"
            /\ HasRow(store', "vehicle_details", "vehicleId", todo[1])
            /\ SensorTypeIdsOf(store', todo[1]) = {NULL}]_vars

(***************************************************************************)
(* Referential integrity of the store, checked under SpecStore.           *)
(***************************************************************************)
\* C14: in every state of the store each child or report row with a non-NULL
\* vehicleId has its vehicle_details row, and each sensor row with a non-NULL
\* sensor_type_id has its sensor_types row.
C14_ForeignKeysHold ==
    \A r \in store : \A fk \in ForeignKeys(r.tbl) :
        (fk.col \in {"vehicleId", "sensor_type_id"} /\ r.c[fk.col] # NULL) =>
            HasRow(store, fk.ref, fk.refcol, r.c[fk.col])

\* the vehicle is stored, no sensor type is, and the sensor record that names
\* both was refused
C14_Witness ==
    /\ Len(writes) = 2
    /\ writes[1].tbl = "vehicle_sensors_detail"
    /\ {"vehicleId", "sensor_type_id"} \subseteq DOMAIN writes[1].data
    /\ ~writes[1].ok
    /\ HasRow(store, "vehicle_details", "vehicleId", writes[1].data["vehicleId"])
    /\ RowsOf(store, "sensor_types") = {}
    /\ RowsOf(store, "vehicle_sensors_detail") = {}

(***************************************************************************)
(* Order of the insert_data calls of a run, checked under Spec.            *)
(***************************************************************************)
\* tables whose rows reference device_types or sensor_types
ReferenceDependents == {"vehicle_details", "vehicle_sensors_detail"}

StageRank(path) ==
    CASE path = "/auth/login" -> 1
      [] path = "/devices/types" -> 2
      [] path = "/sensors/types" -> 3
      [] path = "/vehicles/find" -> 4
      [] path = "/vehicles/{v_id}" -> 5
      [] path \in ReportPaths -> 6
      [] path = "/Drivers/find" -> 7
      [] OTHER -> 0

\* stages that make more than one call
RepeatingStages == {5, 6, 7}

\* C16: a call is issued only when the call before it has returned, and its stage
\* is never an earlier one than that of the call before it: authentication, device
\* types, sensor types, roster, vehicle details, reports, drivers.
C16_StageOrder ==
    [][(call'.pc = "sending" /\ call.pc # "sending") =>
        LET before == StageRank(call.endpoint.path)
            after == StageRank(call'.endpoint.path)
        IN  /\ call.pc \in {"idle", "returned"}
            /\ call.pc = "idle" => after = 1
            /\ before <= after
            /\ before = after => after \in RepeatingStages]_vars

\* a driver call is pending in a run that fetched a vehicle detail and the reports
C16_Witness ==
    /\ call.pc = "sending"
    /\ call.endpoint.path = "/Drivers/find"
    /\ log.detail_ok # {}
    /\ log.calls >= 11

(***************************************************************************)
(* Failures in the report and driver stages, checked under Spec.           *)
(***************************************************************************)
\* the calls of a run in which no call raises: the four of the first stages, one
\* per vehicle id, one per report template if there are vehicle ids, one per
\* parent id
CallsOfRun ==
    4 + Len(active_vehicle_ids)
      + (IF active_vehicle_ids = <<>> THEN 0 ELSE Len(ReportTemplates))
      + Cardinality(all_parent_ids_from_vehicles)

\* the report and driver calls that came back None
FailedTasks ==
    {e \in DOMAIN ret : StageRank(e.path) \in {6, 7} /\ ret[e].result = None}

\* every driver of a validated /Drivers/find response is stored
DriversPersisted ==
    \A e \in DOMAIN ret :
        (e.path = "/Drivers/find" /\ ret[e].result.t = "list") =>
            \A i \in 1..Len(ret[e].result.items) :
                HasRow(store, "drivers", "id", ret[e].result.items[i].id)

\* every validated report response about a stored vehicle has its rows
ReportsPersisted ==
    \A i \in 1..Len(ReportTemplates) :
        LET e == [path |-> ReportTemplates[i].path, arg |-> ""]
            db_table == ReportTemplates[i].db_table
        IN  (e \in DOMAIN ret /\ ret[e].result.t = "list" /\ db_table # NULL) =>
                \A k \in 1..Len(ret[e].result.items) :
                    LET v == ret[e].result.items[k].vehicleId
                    IN  HasRow(store, "vehicle_details", "vehicleId", v)
                            => HasRow(store, db_table, "vehicleId", v)

\* C17: whatever report and driver calls came back None, the loop goes on: at
\* every pass the calls made and the templates still to do add up to all the
\* calls of the run, and when the run has ended every template and parent id has
\* had its call and the rows of the calls that succeeded are stored.
C17_FailedTaskDoesNotStopTheRest ==
    /\ pc = "reports" => log.calls + Len(todo) - 1 = CallsOfRun
    /\ pc = "done" =>
            /\ log.calls = CallsOfRun
            /\ DriversPersisted
            /\ ReportsPersisted

\* a run has ended in which a report call failed, a later driver call succeeded
\* and its driver is stored
C17_Witness ==
    /\ pc = "done" /\ run = 1
    /\ \E e \in FailedTasks : StageRank(e.path) = 6
    /\ \E e \in DOMAIN ret :
            /\ e.path = "/Drivers/find"
            /\ ret[e].result.t = "list"
    /\ RowsOf(store, "drivers") # {}

(***************************************************************************)
(* Pacing of the calls of a run, checked under Spec.                       *)
(***************************************************************************)
\* C18: between the return of one call of the orchestrator and the issue of the
\* next the run sleeps at least REQUEST_DELAY_SECONDS, in every stage and across
\* every stage boundary.
C18_PacingBetweenCalls ==
    [][(call.pc = "returned" /\ call'.pc = "sending") =>
            log'.pause >= REQUEST_DELAY_SECONDS]_vars

(***************************************************************************)
(* A failing write, checked under SpecStore.                               *)
(***************************************************************************)
\* C19: an insert_data call whose statement fails returns with the store as it
\* was before the call and with no transaction left open, on either dialect.
C19_FailedWriteLeavesNoTrace ==
    [][(nextRid' = nextRid + 1 /\ ~writes'[1].ok) =>
            /\ store' = store
            /\ writes'[1].tx \in {"rolled_back", "untouched"}]_vars

\* the rows of store' that the write of this step stamped with its time
Stamped == {r \in store' : r.retrieved_at = clock}

\* C20: a successful insert_data call leaves exactly one row that carries the
\* time of the call as retrieved_at, the row of the record's natural key; no row
\* of that key keeps an earlier time, and every other row keeps the retrieved_at
\* it had.  A stored row's retrieved_at is therefore the time of the latest
\* successful write of that row.
C20_RetrievedAtIsLatestWrite ==
    [][(nextRid' = nextRid + 1 /\ writes'[1].ok) =>
            LET t == writes'[1].tbl
                data == writes'[1].data
                carried == KeyCols(t) \cap DOMAIN data
            IN  /\ Cardinality(Stamped) = 1
                /\ \A r \in Stamped :
                        r.tbl = t /\ \A k \in carried : r.c[k] = data[k]
                /\ carried = KeyCols(t) =>
                        \A r \in RowsOf(store', t) :
                            (\A k \in carried : r.c[k] = data[k]) => r \in Stamped
                /\ \A r \in store' \ Stamped :
                        \E o \in store : /\ o.rid = r.rid
                                          /\ o.retrieved_at = r.retrieved_at]_vars

\* a second successful write of a natural key has overwritten the retrieved_at
\* the first write gave the row
C20_Witness ==
    /\ TwoWritesSameKey
    /\ \E r \in RowsOf(store, writes[1].tbl) :
            /\ \A k \in KeyCols(r.tbl) : r.c[k] = writes[1].data[k]
            /\ r.retrieved_at = clock - 1
            /\ clock - 1 > 1

(***************************************************************************)
(* The driver lookups of a run, checked under Spec.                        *)
(***************************************************************************)
\* the non-empty parentId values of the roster entries the run received (the
\* roster call is the fourth of a run; the re-run is answered as the first run)
RosterParents ==
    LET e == FindEndpoint
        roster == IF log.calls >= 4 /\ e \in DOMAIN ret THEN ret[e].result
                  ELSE None
    IN  IF roster.t = "list"
        THEN {roster.items[i].parentId : i \in 1..Len(roster.items)} \ {NULL, ""}
        ELSE {}

\* the non-empty parentId values of the vehicle details the run validated
DetailParents ==
    {ret[DetailEndpoint(v)].result.data.parentId : v \in log.detail_ok} \ {NULL, ""}

\* the /Drivers/find requests of the run so far
DriverLookups == {req \in DOMAIN log.requested : req.endpoint.path = "/Drivers/find"}

\* C21: every /Drivers/find request of a run is for a parentId of the roster or of
\* a validated vehicle detail and is made once; a run that has reached its end
\* has made one for each of these ids.
C21_DriverLookups ==
    pc \in {"reports", "done", "crashed"} =>
        /\ all_parent_ids_from_vehicles = RosterParents \cup DetailParents
        /\ \A req \in DriverLookups :
                /\ req.endpoint.arg \in all_parent_ids_from_vehicles
                /\ req.json_data = [parentId |-> req.endpoint.arg]
                /\ log.requested[req] = 1
        /\ pc = "done" =>
                {req.endpoint.arg : req \in DriverLookups}
                    = all_parent_ids_from_vehicles

\* a finished run looked up the drivers of the roster's parent and of the
\* parent that only a vehicle detail named
C21_Witness ==
    /\ pc = "done"
    /\ RosterParents = {"p1"}
    /\ DetailParents = {"p2"}
    /\ {req.endpoint.arg : req \in DriverLookups} = {"p1", "p2"}

(***************************************************************************)
(* Bounded waiting, checked under SpecExec.                                *)
(***************************************************************************)
\* the longest backoff sleep the constants of the program give: the exponential
\* term of the last retry
LongestBackoff == ExpTerm(MAX_RETRIES - 1)

\* C22: a make_api_request invocation sends at most MAX_RETRIES + 1 requests,
\* sleeps at most MAX_RETRIES times, and never sleeps longer than a bound the
\* upstream has no hand in, the longest exponential backoff.
C22_BoundedWaiting ==
    pc = "harness" =>
        /\ call.current_retries <= MAX_RETRIES
        /\ call.nreq <= MAX_RETRIES + 1
        /\ call.wait_time <= LongestBackoff

(***************************************************************************)
(* The account of a run's failures, checked under Spec.                    *)
(***************************************************************************)
\* the unit failures of the run so far: the calls that came back None (a vehicle
\* detail, a report, a driver list, a reference list) and the insert_data calls
\* that stored nothing
UnitFailures == log.failures + (Len(log.attempts) - log.writes)

\* C23: no failure ends the run (it never stops with an exception), and the
\* report a run makes at its end carries a count of skipped units that equals
\* the number of unit failures of the run.
C23_SkippedUnitsReported ==
    /\ pc # "crashed"
    /\ pc = "done" =>
            /\ "skipped" \in DOMAIN log.report
            /\ log.report.skipped = UnitFailures

(***************************************************************************)
(* The start of a run, checked under Spec.                                 *)
(***************************************************************************)
\* C24: a run that got no store connection, whose table creation failed, or that
\* has no API credentials has ended without a single API call.
C24_NoCallWithoutStoreOrCredentials ==
    (log.startup # None /\ (\/ ~log.startup.db_conn
                            \/ ~log.startup.created
                            \/ ~log.startup.credentials)) =>
        /\ pc = "exit"
        /\ log.calls = 0
        /\ call.pc = "idle"

\* a run with its store ready and no credentials has ended
C24_Witness ==
    /\ pc = "exit"
    /\ log.startup # None
    /\ log.startup.db_conn /\ log.startup.created /\ ~log.startup.credentials
    /\ log.calls = 0

(***************************************************************************)
(* Tables without a natural key, checked under SpecStore.                  *)
(***************************************************************************)
\* C25: every insert_data call on PostgreSQL for a table without declared
\* natural key has logged the warning, and on neither dialect has such a call
\* stored a row without it.
C25_KeylessWriteWarned ==
    \A i \in 1..Len(writes) :
        unique_cols_map(writes[i].tbl) = {} =>
            /\ DB_TYPE = "postgres" => writes[i].warned
            /\ writes[i].ok => writes[i].warned

\* two PostgreSQL calls in a row for a table without natural key, each warned
C25_Witness ==
    /\ DB_TYPE = "postgres"
    /\ Len(writes) = 2
    /\ \A i \in 1..2 : writes[i].tbl = KeylessTable /\ writes[i].warned

(***************************************************************************)
(* The update clause of PostgreSQL, checked under SpecStore.               *)
(***************************************************************************)
\* the rows of store that the record of this step's insert_data call conflicts
\* with on the table's natural key
ConflictRows ==
    LET t == writes'[1].tbl
    IN  {old \in RowsOf(store, t) :
            Collide(old.c, ProposedCells(t, writes'[1].data), unique_cols_map(t))}

\* C26: on PostgreSQL a successful write that conflicts with a stored row leaves
\* the row's key columns as they were, gives every written non-key column the
\* written value and keeps every other column; when the record has no column
\* beyond the key the stored row is left unchanged.
C26_ConflictUpdate ==
    [][(/\ DB_TYPE = "postgres"
        /\ nextRid' = nextRid + 1
        /\ writes'[1].ok
        /\ writes'[1].tbl \in TableNames
        /\ ConflictRows # {}) =>
            LET t == writes'[1].tbl
                data == writes'[1].data
                key == unique_cols_map(t)
            IN  \A old \in ConflictRows :
                    /\ \E new \in RowsOf(store', t) :
                            /\ new.rid = old.rid
                            /\ \A col \in Columns(t) :
                                    new.c[col] = IF col \in DOMAIN data \ key
                                                 THEN data[col] ELSE old.c[col]
                    /\ DOMAIN data \subseteq key => old \in store']_vars

(***************************************************************************)
(* Stored booleans, checked under Spec.                                    *)
(***************************************************************************)
\* the columns declared with get_boolean_sql_type() that the model keeps
BooleanColumns(t) ==
    CASE t = "drivers" -> {"exclusive", "deleted"}
      [] t = "vehicle_details" -> {"locationByCellId"}
      [] t = "vehicle_custom_fields_detail" -> {"forTooltip"}
      [] t = "vehicle_sensors_detail" -> {"isInverted"}
      [] t = "vehicle_drivers_assigned" -> {"isDefault"}
      [] t \in {"vehicle_cmsv6_params", "vehicle_inspection_tasks"} -> {"enabled"}
      [] OTHER -> {}

\* C27: every column that comes from a source boolean holds 0 or 1 in every
\* stored row.
C27_BooleansStoredAs01 ==
    \A r \in store : \A col \in BooleanColumns(r.tbl) : r.c[col] \in {"0", "1"}

\* rows written from a true, a false and an absent source boolean
C27_Witness ==
    /\ \E r \in RowsOf(store, "vehicle_sensors_detail") : r.c["isInverted"] = "1"
    /\ \E r \in RowsOf(store, "vehicle_details") : r.c["locationByCellId"] = "0"
    /\ \E r \in RowsOf(store, "drivers") :
            r.c["exclusive"] = "0" /\ r.c["deleted"] = "0"
    /\ \E r \in RowsOf(store, "vehicle_inspection_tasks") : r.c["enabled"] = "0"
    /\ \E r \in RowsOf(store, "vehicle_cmsv6_params") : r.c["enabled"] = "1"

(***************************************************************************)
(* Renaming of report fields, checked under Spec.                          *)
(***************************************************************************)
\* the renaming of each entity: <<source field, column>>
Renames(t) ==
    CASE t \in {"mileage_motohours", "fuel_consumption"} ->
            {<<"start", "period_start">>, <<"end", "period_end">>}
      [] t = "fuel_events" ->
            {<<"event", "event_type">>, <<"startDate", "event_startDate">>,
             <<"endDate", "event_endDate">>}
      [] t \in {"move_events", "stop_events"} ->
            {<<"start", "event_start">>, <<"end", "event_end">>}
      [] OTHER -> {}

Range(s) == {s[i] : i \in 1..Len(s)}

\* the nested records of one item of a report response, each with its table
SourceRecords(path, item) ==
    CASE path = "/vehicles/mileageAndMotohours" ->
            {[tbl |-> "mileage_motohours", src |-> s] : s \in Range(item.periods)}
      [] path = "/vehicles/fuelConsumption" ->
            {[tbl |-> "fuel_consumption", src |-> s] : s \in Range(item.periods)}
      [] path = "/vehicles/fuelInOut" ->
            {[tbl |-> "fuel_events", src |-> s] : s \in Range(item.fuels)}
      [] path = "/vehicles/moveStop" ->
            {[tbl |-> "move_events", src |-> s] : s \in Range(item.moves)}
                \cup {[tbl |-> "stop_events", src |-> s] : s \in Range(item.stops)}
      [] OTHER -> {}

\* the records this step hands to insert_data
Handed == Range(SubSeq(log'.attempts, Len(log.attempts) + 1, Len(log'.attempts)))

\* the record a carries the columns of its entity's renaming and none of the
\* source fields
RenamedKeys(a) ==
    \A p \in Renames(a.tbl) : p[2] \in DOMAIN a.data /\ p[1] \notin DOMAIN a.data

\* C28: when a report response has validated, every period, fuel event, move
\* and stop of it is handed to the store as a record of its table in which each
\* renamed column holds the value of its source field, and no record handed to
\* the store has a source field name left.
C28_FixedRenaming ==
    [][(pc = "reports" /\ call.pc = "returned" /\ call.result.t = "list") =>
        /\ \A a \in Handed : RenamedKeys(a)
        /\ \A item \in Range(call.result.items) :
            \A s \in SourceRecords(call.endpoint.path, item) :
                \E a \in Handed :
                    /\ a.tbl = s.tbl
                    /\ a.data["vehicleId"] = item.vehicleId
                    /\ RenamedKeys(a)
                    /\ \A p \in Renames(s.tbl) : a.data[p[2]] = s.src[p[1]]]_vars


(***************************************************************************)
(* C29: the report requests of a run                                       *)
(***************************************************************************)
\* the vehicle ids of the roster entries the run received, in roster order
RosterIds ==
    LET e == FindEndpoint
        roster == IF log.calls >= 4 /\ e \in DOMAIN ret THEN ret[e].result
                  ELSE None
    IN  IF roster.t = "list" THEN NonNullIds(roster.items) ELSE <<>>

\* the requests of the run so far to the five report endpoints
ReportLookups == {req \in DOMAIN log.requested : req.endpoint.path \in ReportPaths}

\* C29: in a run each of the five report endpoints is requested at most once (the
\* retries inside make_api_request aside), with a body that carries every vehicle
\* id of the roster; a run whose roster gave no vehicle id requests none of them.
C29_ReportRequests ==
    pc \in {"reports", "done", "crashed"} =>
        /\ active_vehicle_ids = RosterIds
        /\ \A req \in ReportLookups :
                /\ log.requested[req] = 1
                /\ \E i \in 1..Len(ReportTemplates) :
                        /\ ReportTemplates[i].path = req.endpoint.path
                        /\ req.json_data =
                                IF ReportTemplates[i].is_body_list_of_ids
                                THEN [body |-> RosterIds]
                                ELSE [vehicleIds |-> RosterIds]
        /\ \A path \in ReportPaths :
                Cardinality({req \in ReportLookups : req.endpoint.path = path}) <= 1
        /\ RosterIds = <<>> => ReportLookups = {}

\* a finished run whose roster listed two vehicles and that requested all five
\* reports
C29_Witness ==
    /\ pc = "done"
    /\ Len(RosterIds) = 2
    /\ {req.endpoint.path : req \in ReportLookups} = ReportPaths


(***************************************************************************)
(* C30: cascading deletion of the rows that reference a vehicle            *)
(***************************************************************************)
\* the rows of the child and report tables
Dependents(st) == {r \in st : r.tbl \in ChildTables \cup ReportTables}

\* the vehicle_details rows the row r references
ParentsOf(st, r) ==
    {p \in RowsOf(st, "vehicle_details") :
        r.c["vehicleId"] # NULL /\ p.c["vehicleId"] = r.c["vehicleId"]}

\* the stored row r is not in the store after the step: it was deleted, or
\* deleted and inserted anew (an UPDATE in place keeps the row)
Gone(r) == ~\E q \in store' : q.tbl = r.tbl /\ q.rid = r.rid

\* after the step the store holds neither the row r nor a row that took its
\* place under one of the table's keys
Removed(r) ==
    ~\E q \in store' :
        /\ q.tbl = r.tbl
        /\ \/ q.rid = r.rid
           \/ \E k \in KeySets(r.tbl) : Collide(r.c, q.c, k)

\* C30: a step that deletes or replaces a vehicle_details row removes every child
\* and report row that references its vehicleId, so that every such row in the
\* store has its vehicle_details row; and a child or report row is removed only
\* by a step that deletes or replaces the vehicle_details row it references.
C30_CascadeOnly ==
    [][ /\ \A r \in Dependents(store) :
            /\ (\E p \in ParentsOf(store, r) : Gone(p)) => Gone(r)
            /\ Removed(r) => \E p \in ParentsOf(store, r) : Gone(p)
        /\ \A r \in Dependents(store') :
            r.c["vehicleId"] # NULL => ParentsOf(store', r) # {} ]_vars

\* a child or report row was written for a vehicle, then the vehicle's row was
\* replaced, and the table of the child row is empty
C30_Witness ==
    /\ Len(writes) = 2
    /\ writes[2].ok /\ writes[2].tbl \in ChildTables \cup ReportTables
    /\ writes[1].ok /\ writes[1].tbl = "vehicle_details"
    /\ RowsOf(store, "vehicle_details") # {}
    /\ RowsOf(store, writes[2].tbl) = {}


(***************************************************************************)
(* C31: the request a retry sends                                          *)
(***************************************************************************)
\* the step is a retry: the invocation answered a request and sends another
Retrying == call.pc = "sending" /\ call'.pc = "sending" /\ call'.nreq = call.nreq + 1

\* C31: a retry after a 429 sends the request of the attempt before it again:
\* the same method, endpoint path, token, body, URL parameters and expected
\* response shape; only the retry counter differs, and it is larger by one.
C31_RetrySameRequest ==
    [][Retrying =>
        /\ call'.last = "http429"
        /\ call'.request = call.request
        /\ call'.endpoint = call.endpoint
        /\ call'.expect = call.expect
        /\ call'.current_retries = call.current_retries + 1]_vars

\* the second retry of a request that carries a token is about to be sent
C31_Witness ==
    /\ call.pc = "sending"
    /\ call.current_retries = 2 /\ call.nreq = 2
    /\ call.request.token = "token"
    /\ call.request.json_data = [payload |-> "payload"]


(***************************************************************************)
(* C32: a 2xx response after rate-limit responses                          *)
(***************************************************************************)
\* what an invocation with the arguments of c returns when its first attempt is
\* answered 2xx with the payload body
FirstAttemptReturn(c, body) ==
    LET first == NewCall(c.endpoint, c.expect, c.request)
    IN  [Returned(first, "ok", Validate(first.expect, body)) EXCEPT !.body = body].result

\* C32: an invocation whose attempt k is answered 2xx after k - 1 rate-limit
\* responses (k at most MAX_RETRIES + 1) returns what a first attempt answered
\* with the same payload returns, and sends no request after it.
C32_SuccessAfterRetries ==
    [][ /\ (call'.pc = "returned" /\ call'.last = "ok" /\ call.pc = "sending") =>
            /\ call'.nreq = call.current_retries + 1
            /\ call'.nreq <= MAX_RETRIES + 1
            /\ call'.result = FirstAttemptReturn(call, call'.body)
        /\ (call.pc = "returned" /\ call.last = "ok") =>
            (call' = call \/ call'.nreq = 0) ]_vars

\* the last attempt the retry limit allows was answered 2xx with a payload that
\* validates
C32_Witness ==
    /\ call.pc = "returned" /\ call.last = "ok"
    /\ call.nreq = MAX_RETRIES + 1
    /\ call.current_retries = MAX_RETRIES
    /\ call.result.t = "list" /\ call.result.items # <<>>


(***************************************************************************)
(* C33: a run whose roster call fails                                      *)
(***************************************************************************)
\* the roster call of the run has ended without a validated list: it returned
\* None or raised (the re-run is answered as the first run)
RosterFailed ==
    /\ pc \in {"details", "reports", "done", "crashed"}
    /\ log.calls >= 4
    /\ FindEndpoint \in DOMAIN ret
    /\ \/ ret[FindEndpoint].pc = "raised"
       \/ ret[FindEndpoint].result.t # "list"

\* C33: when the roster call fails or its response does not validate, the run has
\* no vehicle id and no parent id, issues no detail, report or driver request,
\* stores no row outside the reference tables, and ends normally.
C33_RosterFailure ==
    RosterFailed =>
        /\ active_vehicle_ids = <<>>
        /\ all_parent_ids_from_vehicles = {}
        /\ log.calls = 4
        /\ DOMAIN log.requested = {}
        /\ \A r \in store : r.tbl \in ReferenceTables
        /\ pc = "done"


(***************************************************************************)
(* C34: the two dialects, checked under SpecStore                          *)
(***************************************************************************)
\* the insert_data calls made so far, oldest first, while all of them are kept
CallsSoFar == [i \in 1..Len(writes) |-> writes[Len(writes) + 1 - i]]

\* the table contents the calls ws leave in an empty store of the given dialect,
\* without retrieved_at and the surrogate ids
ContentsAfter(db_type, ws) ==
    {Strip(r) : r \in ApplyWrites(db_type, {}, 1, 1, ws).store}

\* C34: the same insert_data calls leave the same table contents on SQLite
\* (INSERT OR REPLACE) and on PostgreSQL (ON CONFLICT DO UPDATE), retrieved_at and
\* surrogate ids aside.
C34_DialectsAgree ==
    (pc = "store" /\ Len(writes) = nextRid - 1) =>
        ContentsAfter("sqlite", CallsSoFar) = ContentsAfter("postgres", CallsSoFar)


(***************************************************************************)
(* C35: the natural key of the records handed to insert_data               *)
(***************************************************************************)
\* C35: every record of a run that is handed to insert_data has a value other
\* than None in every column of the natural key of its table.
C35_NaturalKeyNotNull ==
    \A i \in 1..Len(log.attempts) :
        \A col \in unique_cols_map(log.attempts[i].tbl) :
            Get(log.attempts[i].data, col) # NULL


(***************************************************************************)
(* C36, C37: the sensor-type name -> id map                                *)
(***************************************************************************)
\* C36: every id that the name -> id map holds is the id of a sensor_types row of
\* the store, so that a sensor_type_id taken from the map has the row it
\* references, also when the write of a sensor-type row has failed.
C36_MapEntriesStored ==
    \A name \in DOMAIN SENSOR_TYPE_NAME_TO_ID_MAP :
        HasRow(store, "sensor_types", "id", SENSOR_TYPE_NAME_TO_ID_MAP[name])

\* the step builds the map from the validated /sensors/types response
ReferenceLoad ==
    /\ pc = "sensor_types" /\ call.pc = "returned"
    /\ call.result.t = "list"

\* C37: the name -> id map changes only in the step of the reference stage that
\* takes a validated /sensors/types response (and is empty when a new process
\* starts); every entry it then holds is the id of an item of that response with
\* a non-empty name and an id; no later stage changes it.
C37_MapBuiltInReferenceStage ==
    [][SENSOR_TYPE_NAME_TO_ID_MAP' # SENSOR_TYPE_NAME_TO_ID_MAP =>
        \/ pc' = "start" /\ SENSOR_TYPE_NAME_TO_ID_MAP' = EmptyMap
        \/ /\ ReferenceLoad
           /\ \A name \in DOMAIN SENSOR_TYPE_NAME_TO_ID_MAP' :
                /\ name \notin {NULL, ""}
                /\ SENSOR_TYPE_NAME_TO_ID_MAP'[name] # NULL
                /\ \E i \in 1..Len(call.result.items) :
                        /\ call.result.items[i].name = name
                        /\ call.result.items[i].id = SENSOR_TYPE_NAME_TO_ID_MAP'[name]
           /\ \A i \in 1..Len(call.result.items) :
                LET st_item == call.result.items[i]
                IN  (st_item.name \notin {NULL, ""} /\ st_item.id # NULL) =>
                        st_item.name \in DOMAIN SENSOR_TYPE_NAME_TO_ID_MAP']_vars

\* a run has ended whose /sensors/types response listed an empty name and an item
\* without id besides the type in the map, and whose later stages wrote rows
C37_Witness ==
    /\ pc = "done" /\ run = 1
    /\ DOMAIN SENSOR_TYPE_NAME_TO_ID_MAP = {"FuelLevel"}
    /\ ret[SensorTypesEndpoint].result.t = "list"
    /\ Len(ret[SensorTypesEndpoint].result.items) = 4
    /\ RowsOf(store, "vehicle_sensors_detail") # {}


(***************************************************************************)
(* glonass_parser.py, the earlier revision: main() authenticates, fetches  *)
(* the vehicle list, stores it, and fetches and stores the tracks of each  *)
(* vehicle.  Its state is kept in the variables of the pipeline: pc is the *)
(* position of main, auth_token its token, active_vehicle_ids its vehicles *)
(* (the vehicleId of each entry, NULL for an entry without one), todo the  *)
(* part of the for loop still to run, store the rows of vehicles and       *)
(* vehicle_tracks, nextRid the BIGSERIAL sequence, log what main has done. *)
(***************************************************************************)
\* what main has done: the URLs requested, and the vehicle id, the response and
\* the end (return or exception) of every fetch_and_save_tracks call
ParserLog == [requests |-> <<>>, fetched |-> <<>>]

\* a terminalMessages message: a track point, a point without latitude (NOT NULL
\* in vehicle_tracks), and an element that is no JSON object
GoodMessage == [serverTime |-> "t", latitude |-> "lat"]
NoLatitude == [serverTime |-> "t", latitude |-> NULL]
NotAnObject == [junk |-> "junk"]

\* the responses to POST /terminalMessages: a 4xx/5xx status or no connection, a
\* 200 whose body is no JSON, the JSON array [], a JSON object, and an array whose
\* first element carries the messages
TrackResponses ==
    {[t |-> "http_error"], [t |-> "not_json"], [t |-> "empty_list"],
     [t |-> "object"]}
        \cup {[t |-> "tracks", messages |-> ms] :
                ms \in {<<>>, <<GoodMessage>>, <<NoLatitude>>, <<NotAnObject>>,
                        <<GoodMessage, GoodMessage>>}}

\* fetch_and_save_tracks (lines 137-198) for one response: whether an exception
\* leaves the function, and the vehicle_tracks rows it has committed.
\* raise_for_status and a failed connection raise a RequestException, caught at
\* line 195.  response.json() of a body that is no JSON raises
\* requests.exceptions.JSONDecodeError, a RequestException since requests 2.27,
\* and a plain ValueError before.  response.json()[0] (line 157) raises
\* IndexError on [] and KeyError on an object; m.get (lines 169-177) raises
\* AttributeError for a message that is no object; line 195 and line 197 catch
\* none of them.  A NOT NULL violation of the INSERT is a psycopg2.Error, caught
\* at line 197 before the commit of line 191.
fetch_and_save_tracks(response, vehicle_id, rid, json_error_is_request_exception) ==
    CASE response.t = "http_error" -> [raised |-> FALSE, rows |-> {}]
      [] response.t = "not_json" ->
            [raised |-> ~json_error_is_request_exception, rows |-> {}]
      [] response.t \in {"empty_list", "object"} -> [raised |-> TRUE, rows |-> {}]
      [] response.t = "tracks" ->
            IF response.messages = <<>> THEN [raised |-> FALSE, rows |-> {}]
            ELSE IF \E i \in 1..Len(response.messages) :
                        response.messages[i] = NotAnObject
            THEN [raised |-> TRUE, rows |-> {}]
            ELSE IF \E i \in 1..Len(response.messages) :
                        response.messages[i].latitude = NULL
            THEN [raised |-> FALSE, rows |-> {}]
            ELSE [raised |-> FALSE,
                  rows |-> {[tbl |-> "vehicle_tracks", rid |-> rid + i - 1,
                             vehicle_id |-> vehicle_id,
                             timestamp |-> response.messages[i].serverTime,
                             latitude |-> response.messages[i].latitude] :
                                i \in 1..Len(response.messages)}]

\* get_api_token (lines 74-86): the AuthId of a 200 response, None when the field
\* is missing or the request failed
TokenResponses == {[t |-> "ok", AuthId |-> "tok"], [t |-> "ok", AuthId |-> NULL],
                   [t |-> "ok", AuthId |-> ""], [t |-> "http_error"]}

get_api_token(response) == IF response.t = "ok" THEN response.AuthId ELSE NULL

\* get_all_vehicles (lines 88-100): the decoded list, [] when the request failed
\* longest vehicle list the upstream answers the parser with
MaxVehicles == 3

VehicleLists ==
    {SubSeq(<<"1", "2", "3", "4">>, 1, n) : n \in 0..MaxVehicles}
        \cup {<<"1", NULL, "2">>}

get_all_vehicles(response) == IF response.t = "ok" THEN response.vehicles ELSE <<>>

\* sync_vehicles_to_db (lines 102-135): one vehicles row per entry, by id
sync_vehicles_to_db(st, vehicles_data) ==
    {r \in st : r.tbl # "vehicles"
                    \/ \A i \in 1..Len(vehicles_data) : r.id # vehicles_data[i]}
        \cup {[tbl |-> "vehicles", id |-> vehicles_data[i]] :
                i \in 1..Len(vehicles_data)}

parserIdle == <<run, call, ncalls, DB_TYPE, clock, writes,
                SENSOR_TYPE_NAME_TO_ID_MAP, all_parent_ids_from_vehicles, ret,
                snapshot>>

\* main, lines 204-205: setup_database re-raises a psycopg2.Error (line 69)
MainSetup ==
    /\ pc = "setup_database"
    /\ \E created \in BOOLEAN :
            pc' = IF created THEN "get_api_token" ELSE "parser_raised"
    /\ UNCHANGED <<parserIdle, store, nextRid, auth_token, active_vehicle_ids, todo,
                   log>>

\* main, lines 207-211
MainToken ==
    /\ pc = "get_api_token"
    /\ \E response \in TokenResponses :
        LET token == get_api_token(response)
        IN  /\ auth_token' = token
            /\ pc' = IF token \in {NULL, ""} THEN "parser_returned"
                     ELSE "get_all_vehicles"
    /\ log' = [log EXCEPT !.requests = Append(@, "/api/v3/auth/login")]
    /\ UNCHANGED <<parserIdle, store, nextRid, active_vehicle_ids, todo>>

\* main, lines 213-218; sync_vehicles_to_db has no try: a psycopg2.Error (a failed
\* connection, the NULL id of an entry without vehicleId) leaves main
MainVehicles ==
    /\ pc = "get_all_vehicles"
    /\ \E connected \in BOOLEAN,
          response \in {[t |-> "http_error"]}
                            \cup {[t |-> "ok", vehicles |-> vs] : vs \in VehicleLists} :
        LET vehicles == get_all_vehicles(response)
            synced == connected /\ \A i \in 1..Len(vehicles) : vehicles[i] # NULL
        IN  /\ active_vehicle_ids' = vehicles
            /\ IF vehicles = <<>>
               THEN pc' = "parser_returned" /\ todo' = <<>> /\ store' = store
               ELSE IF ~synced
               THEN pc' = "parser_raised" /\ todo' = <<>> /\ store' = store
               ELSE /\ pc' = "tracks"
                    /\ todo' = vehicles
                    /\ store' = sync_vehicles_to_db(store, vehicles)
    /\ log' = [log EXCEPT !.requests = Append(@, "/api/v3/vehicles/find")]
    /\ UNCHANGED <<parserIdle, nextRid, auth_token>>

\* main, lines 220-225: one pass of the loop over vehicles; the call of line 225
\* is in no try
MainTracks ==
    /\ pc = "tracks"
    /\ \E response \in TrackResponses, json_error_is_request_exception \in BOOLEAN :
        LET vehicle_id == todo[1]
            r == IF vehicle_id = NULL THEN [raised |-> FALSE, rows |-> {}]
                 ELSE fetch_and_save_tracks(response, vehicle_id, nextRid,
                                            json_error_is_request_exception)
        IN  /\ store' = store \cup r.rows
            /\ nextRid' = nextRid + Cardinality(r.rows)
            /\ log' = IF vehicle_id = NULL THEN log
                      ELSE [log EXCEPT
                            !.requests = Append(@, "/api/v3/terminalMessages"),
                            !.fetched = Append(@, [vehicle_id |-> vehicle_id,
                                                   response |-> response,
                                                   raised |-> r.raised])]
            /\ IF r.raised THEN pc' = "parser_raised" /\ todo' = <<>>
               ELSE /\ todo' = Tail(todo)
                    /\ pc' = IF Tail(todo) = <<>> THEN "parser_done" ELSE "tracks"
    /\ UNCHANGED <<parserIdle, auth_token, active_vehicle_ids>>

InitParser ==
    /\ pc = "setup_database"
    /\ run = 1
    /\ call = IdleCall
    /\ ncalls = 0
    /\ DB_TYPE = "postgres"
    /\ store = {}
    /\ nextRid = 1
    /\ clock = 1
    /\ writes = <<>>
    /\ auth_token = NULL
    /\ SENSOR_TYPE_NAME_TO_ID_MAP = EmptyMap
    /\ active_vehicle_ids = <<>>
    /\ all_parent_ids_from_vehicles = {}
    /\ todo = <<>>
    /\ ret = EmptyMap
    /\ snapshot = {}
    /\ log = ParserLog

NextParser == MainSetup \/ MainToken \/ MainVehicles \/ MainTracks

SpecParser == InitParser /\ [][NextParser]_vars

(***************************************************************************)
(* C38: failures of the earlier-revision parser                            *)
(***************************************************************************)
\* main is over: it returned early, ran to its end, or an exception left it
ParserOver == pc \in {"parser_returned", "parser_done", "parser_raised"}

\* C38: without a token main requests neither the vehicles nor any track; and once
\* the loop over the vehicles has begun, whatever the fetch or the saving of one
\* vehicle's tracks ran into, fetch_and_save_tracks is called for every vehicle of
\* the list and main runs to its end.
C38_TrackFailureConfined ==
    /\ (pc \notin {"setup_database", "get_api_token"} /\ auth_token \in {NULL, ""}) =>
            \A i \in 1..Len(log.requests) : log.requests[i] = "/api/v3/auth/login"
    /\ (ParserOver /\ log.fetched # <<>>) =>
            /\ pc = "parser_done"
            /\ [i \in 1..Len(log.fetched) |-> log.fetched[i].vehicle_id]
                    = active_vehicle_ids

====
